---- MODULE Spec2Model ----
(***************************************************************************)
(* Indexing and query engine of the data explorer: the streaming parser of *)
(* the indexer worker, the index coordinator (Indexer), the store, the     *)
(* sql.js secondary index (DatabaseManager) and the record reader          *)
(* (FileReader), as state machines.                                        *)
(*                                                                         *)
(* Bytes and characters are one-character strings; a file, a line and a    *)
(* JavaScript string are sequences of them.                                *)
(***************************************************************************)
EXTENDS Integers, Sequences, FiniteSets, TLC

(***************************************************************************)
(* Bounds of the model.                                                    *)
(***************************************************************************)
\* bytes read by one readSync; CHUNK_SIZE (32 MiB) scaled down
ChunkSize == 2
\* longest enumerated source
MaxFileLen == 3
\* progress messages one worker posts at most
MaxProgress == 2

(***************************************************************************)
(* Strings.                                                                *)
(***************************************************************************)
Min(a, b) == IF a < b THEN a ELSE b

NL == "\n"
CR == "\r"
TAB == "\t"
QUOTE == "\""
BSLASH == "\\"

WhiteSpace == {" ", NL, CR, TAB}

\* String.prototype.toLowerCase on one character
LowerChar(c) ==
  CASE c = "A" -> "a" [] c = "B" -> "b" [] c = "C" -> "c" [] c = "D" -> "d"
    [] c = "E" -> "e" [] c = "F" -> "f" [] c = "G" -> "g" [] c = "H" -> "h"
    [] c = "I" -> "i" [] c = "J" -> "j" [] c = "K" -> "k" [] c = "L" -> "l"
    [] c = "M" -> "m" [] c = "N" -> "n" [] c = "O" -> "o" [] c = "P" -> "p"
    [] c = "Q" -> "q" [] c = "R" -> "r" [] c = "S" -> "s" [] c = "T" -> "t"
    [] c = "U" -> "u" [] c = "V" -> "v" [] c = "W" -> "w" [] c = "X" -> "x"
    [] c = "Y" -> "y" [] c = "Z" -> "z" [] OTHER -> c

\* String.prototype.toUpperCase on one character
UpperChar(c) ==
  CASE c = "a" -> "A" [] c = "b" -> "B" [] c = "c" -> "C" [] c = "d" -> "D"
    [] c = "e" -> "E" [] c = "f" -> "F" [] c = "g" -> "G" [] c = "h" -> "H"
    [] c = "i" -> "I" [] c = "j" -> "J" [] c = "k" -> "K" [] c = "l" -> "L"
    [] c = "m" -> "M" [] c = "n" -> "N" [] c = "o" -> "O" [] c = "p" -> "P"
    [] c = "q" -> "Q" [] c = "r" -> "R" [] c = "s" -> "S" [] c = "t" -> "T"
    [] c = "u" -> "U" [] c = "v" -> "V" [] c = "w" -> "W" [] c = "x" -> "X"
    [] c = "y" -> "Y" [] c = "z" -> "Z" [] OTHER -> c

toLowerCase(s) == [i \in 1..Len(s) |-> LowerChar(s[i])]
toUpperCase(s) == [i \in 1..Len(s) |-> UpperChar(s[i])]

\* String.prototype.trim
RECURSIVE trimStart(_)
trimStart(s) ==
  IF s # <<>> /\ Head(s) \in WhiteSpace THEN trimStart(Tail(s)) ELSE s

RECURSIVE trimEnd(_)
trimEnd(s) ==
  IF s # <<>> /\ s[Len(s)] \in WhiteSpace
  THEN trimEnd(SubSeq(s, 1, Len(s) - 1)) ELSE s

trim(s) == trimEnd(trimStart(s))

\* String.prototype.indexOf for one character, 1-based; 0 when absent
RECURSIVE indexOfFrom(_, _, _)
indexOfFrom(s, c, i) ==
  IF i > Len(s) THEN 0 ELSE IF s[i] = c THEN i ELSE indexOfFrom(s, c, i + 1)

indexOf(s, c) == indexOfFrom(s, c, 1)

\* Array.prototype.join
RECURSIVE join(_, _)
join(parts, sep) ==
  IF parts = <<>> THEN <<>>
  ELSE IF Len(parts) = 1 THEN parts[1]
  ELSE parts[1] \o sep \o join(Tail(parts), sep)

\* String.prototype.split on a one-character separator
RECURSIVE splitFrom(_, _, _, _)
splitFrom(s, c, i, cur) ==
  IF i > Len(s) THEN <<cur>>
  ELSE IF s[i] = c THEN <<cur>> \o splitFrom(s, c, i + 1, <<>>)
  ELSE splitFrom(s, c, i + 1, Append(cur, s[i]))

split(s, c) == splitFrom(s, c, 1, <<>>)

\* Array.prototype.slice(0, n)
slice(a, n) == SubSeq(a, 1, Min(n, Len(a)))

\* occurrences of character c in s
RECURSIVE countChar(_, _)
countChar(s, c) ==
  IF s = <<>> THEN 0
  ELSE (IF Head(s) = c THEN 1 ELSE 0) + countChar(Tail(s), c)

(***************************************************************************)
(* JSON.parse, on the subset of JSON the sources of the model use: objects *)
(* whose values are strings (with the escapes \n \" \\), unsigned          *)
(* integers, null, objects and arrays, without insignificant white space.  *)
(* A value is [t, s]: its type tag and its text (the characters of a       *)
(* string, the digits of a number, the source text of an object or array, *)
(* which is what JSON.stringify gives back for it in this subset).  An     *)
(* object is the sequence of its [k, v] members in insertion order.        *)
(***************************************************************************)
Digits == {"0", "1", "2", "3", "4", "5", "6", "7", "8", "9"}

JFail == [ok |-> FALSE, v |-> [t |-> "null", s |-> <<>>, m |-> <<>>], next |-> 0]

JVal(t, s, m, next) == [ok |-> TRUE, v |-> [t |-> t, s |-> s, m |-> m], next |-> next]

\* the body of a string literal from index i (after the opening quote)
RECURSIVE JStrBody(_, _, _)
JStrBody(s, i, acc) ==
  IF i > Len(s) THEN JFail
  ELSE IF s[i] = QUOTE THEN JVal("str", acc, <<>>, i + 1)
  ELSE IF s[i] = BSLASH THEN
    IF i + 1 > Len(s) THEN JFail
    ELSE IF s[i + 1] = "n" THEN JStrBody(s, i + 2, Append(acc, NL))
    ELSE IF s[i + 1] = "r" THEN JStrBody(s, i + 2, Append(acc, CR))
    ELSE IF s[i + 1] = "t" THEN JStrBody(s, i + 2, Append(acc, TAB))
    ELSE IF s[i + 1] \in {QUOTE, BSLASH, "/"}
      THEN JStrBody(s, i + 2, Append(acc, s[i + 1]))
    ELSE JFail
  ELSE IF s[i] \in {NL, CR, TAB} THEN JFail
  ELSE JStrBody(s, i + 1, Append(acc, s[i]))

RECURSIVE JDigits(_, _, _)
JDigits(s, i, acc) ==
  IF i <= Len(s) /\ s[i] \in Digits THEN JDigits(s, i + 1, Append(acc, s[i]))
  ELSE JVal("num", acc, <<>>, i)

\* obj[k] = v, keeping the position of a key that is already there
JPut(m, k, v) ==
  IF \E j \in 1..Len(m) : m[j].k = k
  THEN [j \in 1..Len(m) |-> IF m[j].k = k THEN [k |-> k, v |-> v] ELSE m[j]]
  ELSE Append(m, [k |-> k, v |-> v])

RECURSIVE JValue(_, _)
RECURSIVE JMembers(_, _, _, _)
RECURSIVE JElements(_, _, _)

JValue(s, i) ==
  IF i > Len(s) THEN JFail
  ELSE IF s[i] = QUOTE THEN JStrBody(s, i + 1, <<>>)
  ELSE IF s[i] \in Digits THEN JDigits(s, i, <<>>)
  ELSE IF i + 3 <= Len(s) /\ SubSeq(s, i, i + 3) = <<"n", "u", "l", "l">>
    THEN JVal("null", <<>>, <<>>, i + 4)
  ELSE IF s[i] = "{" THEN
    IF i + 1 <= Len(s) /\ s[i + 1] = "}"
    THEN JVal("obj", <<"{", "}">>, <<>>, i + 2)
    ELSE JMembers(s, i, i + 1, <<>>)
  ELSE IF s[i] = "[" THEN
    IF i + 1 <= Len(s) /\ s[i + 1] = "]"
    THEN JVal("arr", <<"[", "]">>, <<>>, i + 2)
    ELSE JElements(s, i, i + 1)
  ELSE JFail

\* the members of the object opened at index open, from index i
JMembers(s, open, i, acc) ==
  IF i > Len(s) \/ s[i] # QUOTE THEN JFail
  ELSE LET key == JStrBody(s, i + 1, <<>>) IN
    IF ~key.ok \/ key.next > Len(s) \/ s[key.next] # ":" THEN JFail
    ELSE LET val == JValue(s, key.next + 1) IN
      IF ~val.ok \/ val.next > Len(s) THEN JFail
      ELSE IF s[val.next] = ","
        THEN JMembers(s, open, val.next + 1, JPut(acc, key.v.s, val.v))
      ELSE IF s[val.next] = "}"
        THEN JVal("obj", SubSeq(s, open, val.next),
                  JPut(acc, key.v.s, val.v), val.next + 1)
      ELSE JFail

\* the elements of the array opened at index open, from index i
JElements(s, open, i) ==
  LET val == JValue(s, i) IN
    IF ~val.ok \/ val.next > Len(s) THEN JFail
    ELSE IF s[val.next] = "," THEN JElements(s, open, val.next + 1)
    ELSE IF s[val.next] = "]"
      THEN JVal("arr", SubSeq(s, open, val.next), <<>>, val.next + 1)
    ELSE JFail

\* JSON.parse(s): ok = FALSE when it throws
JSONparse(s) ==
  LET r == JValue(s, 1) IN
    IF r.ok /\ r.next = Len(s) + 1 THEN r ELSE JFail

\* obj[h] of a parsed object: the value, or "undefined"
JGet(m, h) ==
  IF \E j \in 1..Len(m) : m[j].k = h
  THEN (CHOOSE e \in {m[j] : j \in 1..Len(m)} : e.k = h).v
  ELSE [t |-> "undefined", s |-> <<>>, m |-> <<>>]

\* Object.keys(obj).filter(not an object, or an array).slice(0, 20)
RECURSIVE inferHeadersFrom(_)
inferHeadersFrom(m) ==
  IF m = <<>> THEN <<>>
  ELSE (IF Head(m).v.t # "obj" THEN <<Head(m).k>> ELSE <<>>)
       \o inferHeadersFrom(Tail(m))

inferHeaders(m) == slice(inferHeadersFrom(m), 20)

\* the projection of one value: '' for null and undefined,
\* JSON.stringify for objects and arrays, String(val) otherwise
projectValue(v) == IF v.t \in {"null", "undefined"} THEN <<>> ELSE v.s

projectValues(m, hs) == [i \in 1..Len(hs) |-> projectValue(JGet(m, hs[i]))]


(***************************************************************************)
(* The indexer worker: CSV helpers.                                        *)
(***************************************************************************)
\* parseCSVLine: the fields of one line
RECURSIVE parseCSVFrom(_, _, _, _, _, _)
parseCSVFrom(line, delimiter, i, current, inQuotes, result) ==
  IF i > Len(line) THEN Append(result, trim(current))
  ELSE IF line[i] = QUOTE THEN
    IF inQuotes /\ i + 1 <= Len(line) /\ line[i + 1] = QUOTE
    THEN parseCSVFrom(line, delimiter, i + 2, Append(current, QUOTE), inQuotes, result)
    ELSE parseCSVFrom(line, delimiter, i + 1, current, ~inQuotes, result)
  ELSE IF line[i] = delimiter /\ ~inQuotes
    THEN parseCSVFrom(line, delimiter, i + 1, <<>>, inQuotes, Append(result, trim(current)))
  ELSE parseCSVFrom(line, delimiter, i + 1, Append(current, line[i]), inQuotes, result)

parseCSVLine(line, delimiter) == parseCSVFrom(line, delimiter, 1, <<>>, FALSE, <<>>)

\* detectDelimiter: the candidate with the highest count in the first line,
\* the earliest on a tie (the sort is stable), ',' when none occurs
detectDelimiter(firstLine) ==
  LET delimiters == <<",", ";", TAB, "|">>
      count(k) == countChar(firstLine, delimiters[k])
      best == CHOOSE k \in 1..4 :
                /\ \A j \in 1..4 : count(j) <= count(k)
                /\ \A j \in 1..(k - 1) : count(j) < count(k)
  IN IF count(best) > 0 THEN delimiters[best] ELSE ","

\* the first line of the 4096-byte peek of indexCSV
peekFirstLine(file) ==
  LET peekStr == SubSeq(file, 1, Min(4096, Len(file)))
      firstLineEnd == indexOf(peekStr, NL) - 1
  IN IF firstLineEnd > 0 THEN SubSeq(peekStr, 1, firstLineEnd) ELSE peekStr

\* validateCSVLine(...).valid: the number of the values is the expected one
\* and the number of the quotes is even
validateCSVLine(line, delimiter, expectedColumns) ==
  /\ Len(parseCSVLine(line, delimiter)) = expectedColumns
  /\ countChar(line, QUOTE) % 2 = 0

\* extractSearchFields: the first six values, '|' replaced by a space
extractSearchFields(values) ==
  LET six == slice(values, 6)
  IN [i \in 1..Len(six) |->
        [j \in 1..Len(six[i]) |-> IF six[i][j] = "|" THEN " " ELSE six[i][j]]]

\* searchFields.join('|').toLowerCase()
searchLine(fields) == toLowerCase(join(fields, <<"|">>))

\* the function-valued properties every object literal inherits from
\* Object.prototype: stats[header] finds them when the header names one
InheritedFunctions ==
  {<<"c", "o", "n", "s", "t", "r", "u", "c", "t", "o", "r">>,
   <<"t", "o", "S", "t", "r", "i", "n", "g">>,
   <<"v", "a", "l", "u", "e", "O", "f">>,
   <<"h", "a", "s", "O", "w", "n", "P", "r", "o", "p", "e", "r", "t", "y">>}

\* the own properties of a function object that are not writable: in the
\* strict code of a module an assignment to one throws a TypeError
ReadOnlyFunctionProps ==
  {<<"n", "a", "m", "e">>, <<"l", "e", "n", "g", "t", "h">>}

\* updateStats throws: for one of the first ten headers stats[header] is an
\* inherited function (truthy, so never replaced by {}, and with fewer than
\* 100 own enumerable keys or a truthy stats[header][value]) and the value
\* (values[i] || '') names a read-only property of it
updateStatsThrows(headers, values) ==
  \E i \in 1..Min(Len(headers), 10) :
    /\ headers[i] \in InheritedFunctions
    /\ i <= Len(values)
    /\ values[i] \in ReadOnlyFunctionProps

(***************************************************************************)
(* The indexer worker: the state of one run of indexCSV, indexNDJSON,      *)
(* indexVCF or indexJSONArray, and the body of its chunk loop.             *)
(* bytesRead is what the last readSync returned (-1 before the first).     *)
(***************************************************************************)
Formats == {"csv", "ndjson", "json-array", "vcf"}

VCF_HEADERS ==
  << <<"F", "N">>, <<"N">>, <<"E", "M", "A", "I", "L">>, <<"T", "E", "L">>,
     <<"O", "R", "G">>, <<"A", "D", "R">>, <<"N", "O", "T", "E">>,
     <<"U", "R", "L">>, <<"B", "D", "A", "Y">>, <<"T", "I", "T", "L", "E">> >>

BEGIN_VCARD == <<"B", "E", "G", "I", "N", ":", "V", "C", "A", "R", "D">>
END_VCARD == <<"E", "N", "D", ":", "V", "C", "A", "R", "D">>

NewParser(format) ==
  [pc |-> "loop", globalByteOffset |-> 0, leftoverBytes |-> <<>>, bytesRead |-> -1,
   positions |-> <<>>, searchLines |-> <<>>,
   headers |-> IF format = "vcf" THEN VCF_HEADERS ELSE <<>>,
   isFirst |-> TRUE, totalRecords |-> 0,
   currentVCardStart |-> -1, currentVCard |-> <<>>, lastKey |-> <<>>,
   depth |-> 0, inString |-> FALSE, escapeNext |-> FALSE,
   objectStart |-> -1, objectBuffer |-> <<>>]

\* fs.readSync(fd, buffer, 0, CHUNK_SIZE, position): the bytes it delivers
readSync(file, position) ==
  SubSeq(file, position + 1, Min(position + ChunkSize, Len(file)))

\* one data record of indexCSV (lines 140-145 and 182-187)
csvRecord(st, line, lineStartPos, delimiter) ==
  LET record(values) ==
        LET pushed == [st EXCEPT !.positions = Append(@, lineStartPos),
                                 !.searchLines = Append(@, searchLine(extractSearchFields(values)))]
        IN IF updateStatsThrows(st.headers, values)
           THEN [pushed EXCEPT !.pc = "error"]
           ELSE [pushed EXCEPT !.totalRecords = @ + 1]
  IN CHOOSE out \in {record(values) : values \in {parseCSVLine(line, delimiter)}} : TRUE

\* one decoded object of indexNDJSON and indexJSONArray: JSON.parse, the
\* position, header inference on the first record, projection, updateStats,
\* the count. The catch skips what is left of the try block: a throw of
\* JSON.parse leaves the state alone, a throw of updateStats leaves the
\* position and the search line without the count
jsonRecord(st, text, pos) ==
  LET record(r, hs) ==
        LET pushed == [st EXCEPT !.positions = Append(@, pos),
                                 !.headers = hs,
                                 !.isFirst = FALSE,
                                 !.searchLines = Append(@, searchLine(projectValues(r.v.m, slice(hs, 6))))]
        IN IF updateStatsThrows(hs, projectValues(r.v.m, hs)) THEN pushed
           ELSE [pushed EXCEPT !.totalRecords = @ + 1]
      parsed(r) ==
        IF ~r.ok THEN st
        ELSE CHOOSE out \in {record(r, hs) :
                               hs \in {IF st.isFirst THEN inferHeaders(r.v.m) ELSE st.headers}} : TRUE
  IN CHOOSE out \in {parsed(r) : r \in {JSONparse(text)}} : TRUE

\* currentVCard[key], '' when absent
vcGet(card, key) ==
  IF \E j \in 1..Len(card) : card[j].k = key
  THEN (CHOOSE e \in {card[j] : j \in 1..Len(card)} : e.k = key).v
  ELSE <<>>

vcPut(card, key, value) ==
  IF \E j \in 1..Len(card) : card[j].k = key
  THEN [j \in 1..Len(card) |-> IF card[j].k = key THEN [k |-> key, v |-> value] ELSE card[j]]
  ELSE Append(card, [k |-> key, v |-> value])

\* one line of indexVCF (lines 544-588)
vcfLine(st, line, lineStartPos) ==
  IF st.currentVCardStart # -1 /\ line # <<>> /\ line[1] \in {" ", TAB} THEN
    IF st.lastKey # <<>> /\ vcGet(st.currentVCard, st.lastKey) # <<>>
    THEN [st EXCEPT !.currentVCard =
            vcPut(@, st.lastKey, vcGet(@, st.lastKey) \o Tail(line))]
    ELSE st
  ELSE IF trim(line) = BEGIN_VCARD THEN
    [st EXCEPT !.currentVCardStart = lineStartPos, !.currentVCard = <<>>, !.lastKey = <<>>]
  ELSE IF trim(line) = END_VCARD /\ st.currentVCardStart # -1 THEN
    [st EXCEPT !.positions = Append(@, st.currentVCardStart),
               !.searchLines = Append(@, searchLine(
                  [i \in 1..6 |-> vcGet(st.currentVCard, VCF_HEADERS[i])])),
               !.totalRecords = @ + 1,
               !.currentVCardStart = -1, !.currentVCard = <<>>, !.lastKey = <<>>]
  ELSE IF st.currentVCardStart # -1 /\ indexOf(line, ":") > 0 THEN
    LET colonIdx == indexOf(line, ":")
        rawKey == toUpperCase(SubSeq(line, 1, colonIdx - 1))
        key == IF indexOf(rawKey, ";") > 0 THEN split(rawKey, ";")[1] ELSE rawKey
        value == SubSeq(line, colonIdx + 1, Len(line))
    IN IF vcGet(st.currentVCard, key) = <<>>
       THEN [st EXCEPT !.lastKey = key, !.currentVCard = vcPut(@, key, value)]
       ELSE IF key \in {<<"E", "M", "A", "I", "L">>, <<"T", "E", "L">>}
         THEN [st EXCEPT !.lastKey = key,
                         !.currentVCard = vcPut(@, key, vcGet(@, key) \o <<",", " ">> \o value)]
       ELSE [st EXCEPT !.lastKey = key]
  ELSE st

\* what the line loops do with one complete line
handleLine(st, format, delimiter, lineBytes, lineStartPos) ==
  CASE format = "csv" ->
         IF st.isFirst
         THEN [st EXCEPT !.headers = parseCSVLine(lineBytes, delimiter), !.isFirst = FALSE]
         ELSE csvRecord(st, lineBytes, lineStartPos, delimiter)
    [] format = "ndjson" ->
         LET line == trim(lineBytes)
         IN IF Len(line) > 0 /\ line[1] = "{" THEN jsonRecord(st, line, lineStartPos) ELSE st
    [] format = "vcf" -> vcfLine(st, lineBytes, lineStartPos)

\* the for loop over the bytes of one chunk (i is 1-based, searchStart 0-based)
RECURSIVE scanLines(_, _, _, _, _, _, _)
scanLines(st, format, delimiter, chunk, chunkStartOffset, i, searchStart) ==
  IF i > Len(chunk) \/ st.pc = "error" THEN [st |-> st, searchStart |-> searchStart]
  ELSE IF chunk[i] = NL THEN
    LET lineEnd == IF i > 1 /\ chunk[i - 1] = CR THEN i - 2 ELSE i - 1
        lineBytes == SubSeq(chunk, searchStart + 1, lineEnd)
    IN CHOOSE out \in
         {scanLines(next, format, delimiter, chunk, chunkStartOffset, i + 1, i) :
            next \in {handleLine(st, format, delimiter, lineBytes,
                                 chunkStartOffset + searchStart)}} : TRUE
  ELSE scanLines(st, format, delimiter, chunk, chunkStartOffset, i + 1, searchStart)

\* the code between the chunk loop and writeIndexFiles: the last line
\* without a newline (indexCSV 171-188, indexNDJSON 454-491; indexVCF has none)
afterLoop(st, format, delimiter) ==
  LET lineStartPos == st.globalByteOffset - Len(st.leftoverBytes)
      left == st.leftoverBytes
  IN CASE format = "csv" /\ Len(left) > 0 /\ ~st.isFirst ->
            csvRecord(st, IF left[Len(left)] = CR THEN SubSeq(left, 1, Len(left) - 1) ELSE left,
                      lineStartPos, delimiter)
       [] format = "ndjson" /\ Len(left) > 0 /\ Len(trim(left)) > 0 /\ trim(left)[1] = "{" ->
            jsonRecord(st, trim(left), lineStartPos)
       [] OTHER -> st

\* the mutant of chunkStartOffset for C12: the leftover length is not taken off
chunkStartNoLeftover(st) == st.globalByteOffset

\* the file offset of the first byte of the chunk (leftover, then new bytes)
chunkStartOffset(st) == st.globalByteOffset - Len(st.leftoverBytes)

\* one pass through the body of `while (true)` of indexCSV, indexNDJSON and
\* indexVCF; the pass that breaks also runs the code after the loop, and a
\* pass in which indexCSV throws ends the index function (pc = "error")
lineLoopPass(st, file, format) ==
  LET delimiter == detectDelimiter(peekFirstLine(file))
      buf == readSync(file, st.globalByteOffset)
      bytesRead == Len(buf)
      chunk == st.leftoverBytes \o buf
      scanned == scanLines([st EXCEPT !.leftoverBytes = <<>>], format, delimiter,
                           chunk, chunkStartOffset(st), 1, 0)
  IN IF bytesRead = 0 /\ Len(st.leftoverBytes) = 0
     THEN [afterLoop(st, format, delimiter) EXCEPT
             !.bytesRead = 0, !.pc = IF @ = "error" THEN @ ELSE "write"]
     ELSE IF scanned.st.pc = "error" THEN scanned.st
     ELSE [scanned.st EXCEPT
             !.leftoverBytes = IF scanned.searchStart < Len(chunk)
                               THEN SubSeq(chunk, scanned.searchStart + 1, Len(chunk))
                               ELSE <<>>,
             !.globalByteOffset = @ + bytesRead,
             !.bytesRead = bytesRead]


\* buf(c): objectBuffer += char when an object is open
bufAdd(st, char) ==
  IF st.objectStart # -1 THEN [st EXCEPT !.objectBuffer = Append(@, char)] ELSE st

\* the state machine without its escape handling
jsonArrayByteNoEscape(st, char, currentPos) ==
  IF char = QUOTE THEN bufAdd([st EXCEPT !.inString = ~@], char)
  ELSE IF st.inString THEN bufAdd(st, char)
  ELSE IF char = "{" THEN
    IF st.depth = 1
    THEN [st EXCEPT !.objectStart = currentPos, !.objectBuffer = <<"{">>, !.depth = @ + 1]
    ELSE IF st.depth > 1 /\ st.objectStart # -1
      THEN [st EXCEPT !.objectBuffer = Append(@, char), !.depth = @ + 1]
    ELSE [st EXCEPT !.depth = @ + 1]
  ELSE IF char = "}" THEN
    IF st.depth - 1 = 1 /\ st.objectStart # -1
    THEN [jsonRecord(st, Append(st.objectBuffer, "}"), st.objectStart)
            EXCEPT !.depth = st.depth - 1, !.objectStart = -1, !.objectBuffer = <<>>]
    ELSE bufAdd([st EXCEPT !.depth = @ - 1], char)
  ELSE IF char = "[" THEN
    IF st.depth = 0 THEN [st EXCEPT !.depth = 1]
    ELSE bufAdd([st EXCEPT !.depth = @ + 1], char)
  ELSE IF char = "]" THEN
    IF st.depth = 1 THEN [st EXCEPT !.depth = 0]
    ELSE bufAdd([st EXCEPT !.depth = @ - 1], char)
  ELSE bufAdd(st, char)

\* one byte of the state machine of indexJSONArray (lines 244-338)
jsonArrayByte(st, char, currentPos) ==
  IF st.escapeNext THEN bufAdd([st EXCEPT !.escapeNext = FALSE], char)
  ELSE IF char = BSLASH /\ st.inString THEN bufAdd([st EXCEPT !.escapeNext = TRUE], char)
  ELSE IF char = QUOTE THEN bufAdd([st EXCEPT !.inString = ~@], char)
  ELSE IF st.inString THEN bufAdd(st, char)
  ELSE IF char = "{" THEN
    IF st.depth = 1
    THEN [st EXCEPT !.objectStart = currentPos, !.objectBuffer = <<"{">>, !.depth = @ + 1]
    ELSE IF st.depth > 1 /\ st.objectStart # -1
      THEN [st EXCEPT !.objectBuffer = Append(@, char), !.depth = @ + 1]
    ELSE [st EXCEPT !.depth = @ + 1]
  ELSE IF char = "}" THEN
    IF st.depth - 1 = 1 /\ st.objectStart # -1
    THEN [jsonRecord(st, Append(st.objectBuffer, "}"), st.objectStart)
            EXCEPT !.depth = st.depth - 1, !.objectStart = -1, !.objectBuffer = <<>>]
    ELSE bufAdd([st EXCEPT !.depth = @ - 1], char)
  ELSE IF char = "[" THEN
    IF st.depth = 0 THEN [st EXCEPT !.depth = 1]
    ELSE bufAdd([st EXCEPT !.depth = @ + 1], char)
  ELSE IF char = "]" THEN
    IF st.depth = 1 THEN [st EXCEPT !.depth = 0]
    ELSE bufAdd([st EXCEPT !.depth = @ - 1], char)
  ELSE bufAdd(st, char)

RECURSIVE scanBytes(_, _, _, _)
scanBytes(st, buf, globalByteOffset, i) ==
  IF i > Len(buf) THEN st
  ELSE scanBytes(jsonArrayByte(st, buf[i], globalByteOffset + i - 1),
                 buf, globalByteOffset, i + 1)

\* one pass through the body of `while (true)` of indexJSONArray
jsonArrayPass(st, file) ==
  LET buf == readSync(file, st.globalByteOffset)
      bytesRead == Len(buf)
  IN IF bytesRead = 0
     THEN [st EXCEPT !.bytesRead = 0, !.pc = "write"]
     ELSE [scanBytes(st, buf, st.globalByteOffset, 1) EXCEPT
             !.globalByteOffset = @ + bytesRead,
             !.bytesRead = bytesRead]

\* one pass of the chunk loop of the format's index function
loopPass(st, file, format) ==
  IF format = "json-array" THEN jsonArrayPass(st, file)
  ELSE lineLoopPass(st, file, format)

\* indexJSON: '[' after trimming the first 1024 bytes selects the array scanner
isArray(file) ==
  LET peek == trim(SubSeq(file, 1, Min(1024, Len(file))))
  IN peek # <<>> /\ peek[1] = "["

\* the whole chunk loop: the state in which it exits, or, when a pass with
\* bytesRead = 0 leaves the state as it found it, that state with pc = "loop":
\* every later pass repeats it
RECURSIVE runLoop(_, _, _)
runLoop(st, file, format) ==
  LET after(next) ==
        IF next.pc # "loop" THEN next
        ELSE IF next.bytesRead = 0 /\ [next EXCEPT !.bytesRead = st.bytesRead] = st THEN next
        ELSE runLoop(next, file, format)
  IN CHOOSE last \in {after(next) : next \in {loopPass(st, file, format)}} : TRUE


(***************************************************************************)
(* Source files of the model.                                              *)
(***************************************************************************)
\* scenario 1 of the specification: no newline after the last record
CSV_QUOTED ==
  <<"n", "a", "m", "e", ",", "e", "m", "a", "i", "l", NL, QUOTE, "D", "o",
    "e", ",", " ", "J", "o", "h", "n", QUOTE, ",", QUOTE, "a", "@", "x",
    QUOTE, NL, "J", "a", "n", "e", ",", "b", "@", "y">>

\* an empty last line, in the same chunk as the end of the line before it
CSV_BLANK ==
  <<"h", NL, "a", "b", NL, NL>>

\* a line of one value and a line with one quote under a header of two
CSV_MALFORMED ==
  <<"a", ",", "b", NL, "1", NL, "2", ",", QUOTE, "3", NL, "4", ",", "5", NL>>

\* CRLF line ends
CSV_CRLF ==
  <<"a", ",", "b", CR, NL, "1", ",", "2", CR, NL>>

\* an object-valued key, newline-terminated
NDJSON_NESTED ==
  <<"{", QUOTE, "u", QUOTE, ":", QUOTE, "a", "l", QUOTE, ",", QUOTE, "m",
    QUOTE, ":", "{", QUOTE, "x", QUOTE, ":", "1", "}", "}", NL, "{", QUOTE,
    "u", QUOTE, ":", QUOTE, "b", "o", QUOTE, "}", NL>>

\* no newline after the last record
NDJSON_OPEN ==
  <<"{", QUOTE, "u", QUOTE, ":", QUOTE, "a", "l", QUOTE, "}", NL, "{",
    QUOTE, "u", QUOTE, ":", QUOTE, "b", "o", QUOTE, "}">>

\* a second record with a key the first record does not have
NDJSON_LATE_KEY ==
  <<"{", QUOTE, "a", QUOTE, ":", "1", "}", NL,
    "{", QUOTE, "a", QUOTE, ":", "2", ",", QUOTE, "b", QUOTE, ":", "3", "}", NL>>

\* a value that holds a newline (escaped in the source)
NDJSON_NEWLINE ==
  <<"{", QUOTE, "u", QUOTE, ":", QUOTE, "a", BSLASH, "n", "b", QUOTE, "}",
    NL>>

\* a key that names a function of Object.prototype, with the name of a
\* read-only property of functions as its value; then a plain record
NDJSON_CTOR ==
  <<"{", QUOTE, "c", "o", "n", "s", "t", "r", "u", "c", "t", "o", "r", QUOTE, ":", QUOTE, "n", "a", "m", "e", QUOTE, "}", NL, "{", QUOTE, "c", "o", "n", "s", "t", "r", "u", "c", "t", "o", "r", QUOTE, ":", QUOTE, "x", QUOTE, "}", NL>>

\* the same as a CSV column
CSV_CTOR ==
  <<"c", "o", "n", "s", "t", "r", "u", "c", "t", "o", "r", NL, "n", "a", "m", "e", NL>>

\* a value that holds a pipe
NDJSON_PIPE ==
  <<"{", QUOTE, "u", QUOTE, ":", QUOTE, "a", "|", "b", QUOTE, ",", QUOTE,
    "w", QUOTE, ":", QUOTE, "c", QUOTE, "}", NL>>

\* scenario 3 of the specification
JSON_ARRAY ==
  <<"[", " ", "{", QUOTE, "s", QUOTE, ":", QUOTE, "a", "}", "b", QUOTE,
    ",", QUOTE, "n", QUOTE, ":", "1", "}", ",", " ", "{", QUOTE, "s",
    QUOTE, ":", QUOTE, "{", QUOTE, ",", QUOTE, "n", QUOTE, ":", "2", "}",
    " ", "]">>

\* scenario 4 of the specification
VCF_FOLDED ==
  <<"B", "E", "G", "I", "N", ":", "V", "C", "A", "R", "D", NL, "F", "N",
    ":", "A", "l", NL, " ", "P", "h", "a", NL, "E", "M", "A", "I", "L",
    ":", "a", "@", "x", NL, "E", "M", "A", "I", "L", ":", "b", "@", "y",
    NL, "E", "N", "D", ":", "V", "C", "A", "R", "D", NL>>

\* no newline after END:VCARD
VCF_OPEN ==
  <<"B", "E", "G", "I", "N", ":", "V", "C", "A", "R", "D", NL, "F", "N",
    ":", "A", "l", NL, "E", "N", "D", ":", "V", "C", "A", "R", "D">>

\* the elements of the array documents: objects with a brace, an escaped
\* quote and an escaped backslash in a string, an object of nested values, a
\* string that holds a brace, an array that holds an object, a number
OBJ_BRACE == <<"{", QUOTE, "a", QUOTE, ":", QUOTE, "}", "]", QUOTE, "}">>
OBJ_QUOTE == <<"{", QUOTE, "a", QUOTE, ":", QUOTE, BSLASH, QUOTE, "{", QUOTE, "}">>
OBJ_BSLASH == <<"{", QUOTE, "a", QUOTE, ":", QUOTE, BSLASH, BSLASH, QUOTE, "}">>
OBJ_NESTED ==
  <<"{", QUOTE, "a", QUOTE, ":", "{", QUOTE, "b", QUOTE, ":", "[", "1", "]", "}", "}">>
STR_BRACE == <<QUOTE, "{", QUOTE>>
ARR_OBJ == <<"[", "{", QUOTE, "b", QUOTE, ":", "1", "}", "]">>
NUM == <<"1">>

ArrayObjects == {OBJ_BRACE, OBJ_QUOTE, OBJ_BSLASH, OBJ_NESTED}
ArrayElements == ArrayObjects \cup {STR_BRACE, ARR_OBJ, NUM}

\* elements of an array document at most
MaxElements == 2

\* the text of the array of the elements
arrayText(elements) == <<"[">> \o join(elements, <<",">>) \o <<"]">>

ArraySources ==
  {[ext |-> "json", bytes |-> arrayText(es)] :
     es \in UNION {[1..n -> ArrayElements] : n \in 1..MaxElements}}

NamedSources ==
  {[ext |-> "csv", bytes |-> CSV_QUOTED],
   [ext |-> "csv", bytes |-> CSV_CRLF],
   [ext |-> "csv", bytes |-> CSV_BLANK],
   [ext |-> "csv", bytes |-> CSV_MALFORMED],
   [ext |-> "json", bytes |-> NDJSON_NESTED],
   [ext |-> "json", bytes |-> NDJSON_OPEN],
   [ext |-> "json", bytes |-> NDJSON_NEWLINE],
   [ext |-> "json", bytes |-> NDJSON_LATE_KEY],
   [ext |-> "json", bytes |-> NDJSON_CTOR],
   [ext |-> "csv", bytes |-> CSV_CTOR],
   [ext |-> "json", bytes |-> JSON_ARRAY],
   [ext |-> "vcf", bytes |-> VCF_FOLDED],
   [ext |-> "vcf", bytes |-> VCF_OPEN]}

\* every source of at most MaxFileLen bytes over a four-byte alphabet
ShortSources ==
  {[ext |-> e, bytes |-> b] :
     e \in {"csv", "json"},
     b \in UNION {[1..n -> {"a", NL, "{", "}"}] : n \in 0..MaxFileLen}}

Sources == ShortSources \cup NamedSources \cup ArraySources

\* indexFile and indexJSON of the worker: the index function by extension and peek
formatOf(src) ==
  IF src.ext = "json" THEN (IF isArray(src.bytes) THEN "json-array" ELSE "ndjson")
  ELSE IF src.ext = "vcf" THEN "vcf"
  ELSE "csv"

(***************************************************************************)
(* writeIndexFiles: the content of the four files it writes.               *)
(***************************************************************************)
\* {id}.index.bin: one 6-byte little-endian offset per position
indexBinOf(st) == st.positions

\* {id}.search.txt: searchLines.join('\n')
searchTxtOf(st) == join(st.searchLines, <<NL>>)

\* a meta record that stands for "no meta"
NoMeta ==
  [fileType |-> "", format |-> "", delimiter |-> "", totalRecords |-> 0,
   columns |-> <<>>, searchableColumns |-> <<>>]

\* {id}.meta.json
metaOf(st, src) ==
  [fileType |-> src.ext,
   format |-> formatOf(src),
   delimiter |-> IF formatOf(src) = "csv" THEN detectDelimiter(peekFirstLine(src.bytes)) ELSE ",",
   totalRecords |-> st.totalRecords,
   columns |-> st.headers,
   searchableColumns |-> slice(st.headers, 6)]

\* Math.round((globalByteOffset / fileSize) * 100), fileSize > 0
percentOf(globalByteOffset, fileSize) ==
  (200 * globalByteOffset + fileSize) \div (2 * fileSize)

\* (fileSize - globalByteOffset) / rate, at a rate of one byte a time unit
etaOf(globalByteOffset, fileSize) == fileSize - globalByteOffset

(***************************************************************************)
(* FileReader: decoding the record at a position of the source file.       *)
(* A record is the sequence of its [k, v] entries in insertion order.      *)
(***************************************************************************)
\* the read window of readRecordAt, scaled like the chunk size:
\* 16384 bytes past the last position, 500 bytes of slack, 32768 at most
READ_LAST == 12
READ_SLACK == 2
READ_MAX == 24

\* a zero byte of Buffer.alloc
NUL == "NUL"

\* the string readRecordAt decodes: maxLen bytes from the position of the
\* record, zero bytes where the file has ended
readWindow(file, positions, index, totalRecords) ==
  LET pos == positions[index + 1]
      nextPos == IF index + 1 < totalRecords THEN positions[index + 2] ELSE pos + READ_LAST
      maxLen == Min(nextPos - pos + READ_SLACK, READ_MAX)
      got == SubSeq(file, pos + 1, Min(pos + maxLen, Len(file)))
  IN got \o [k \in 1..(maxLen - Len(got)) |-> NUL]

\* the record made of a parsed object: null and scalars as they are, arrays
\* as their JSON text, nested objects left out
RECURSIVE recordOfObject(_)
recordOfObject(m) ==
  IF m = <<>> THEN <<>>
  ELSE (IF Head(m).v.t # "obj" THEN <<[k |-> Head(m).k, v |-> Head(m).v.s]>> ELSE <<>>)
       \o recordOfObject(Tail(m))

\* extractJSONObject: JSON.parse of the first balanced {...}; ok = FALSE for null
extractJSONObject(str) ==
  LET RECURSIVE extractFrom(_, _, _, _, _)
      extractFrom(i, depth, inString, escapeNext, start) ==
        IF i > Len(str) THEN JFail
        ELSE IF escapeNext THEN extractFrom(i + 1, depth, inString, FALSE, start)
        ELSE IF str[i] = BSLASH /\ inString THEN extractFrom(i + 1, depth, inString, TRUE, start)
        ELSE IF str[i] = QUOTE THEN extractFrom(i + 1, depth, ~inString, escapeNext, start)
        ELSE IF inString THEN extractFrom(i + 1, depth, inString, escapeNext, start)
        ELSE IF str[i] = "{"
          THEN extractFrom(i + 1, depth + 1, inString, escapeNext, IF depth = 0 THEN i ELSE start)
        ELSE IF str[i] = "}" THEN
          IF depth - 1 = 0 /\ start # -1 THEN JSONparse(SubSeq(str, start, i))
          ELSE extractFrom(i + 1, depth - 1, inString, escapeNext, start)
        ELSE extractFrom(i + 1, depth, inString, escapeNext, start)
  IN extractFrom(1, 0, FALSE, FALSE, -1)

\* parseVCard of the reader: unfold (/\r?\n[ \t]/g removed), split on
\* /\r?\n/, then one property per line; the first value of a key stays,
\* EMAIL and TEL collect all of them
parseVCard(vCardStr) ==
  LET RECURSIVE unfold(_)
      unfold(t) ==
        IF t = <<>> THEN <<>>
        ELSE IF Len(t) >= 3 /\ t[1] = CR /\ t[2] = NL /\ t[3] \in {" ", TAB}
          THEN unfold(SubSeq(t, 4, Len(t)))
        ELSE IF Len(t) >= 2 /\ t[1] = NL /\ t[2] \in {" ", TAB}
          THEN unfold(SubSeq(t, 3, Len(t)))
        ELSE <<Head(t)>> \o unfold(Tail(t))
      RECURSIVE splitLines(_, _)
      splitLines(t, cur) ==
        IF t = <<>> THEN <<cur>>
        ELSE IF Len(t) >= 2 /\ t[1] = CR /\ t[2] = NL
          THEN <<cur>> \o splitLines(SubSeq(t, 3, Len(t)), <<>>)
        ELSE IF t[1] = NL THEN <<cur>> \o splitLines(Tail(t), <<>>)
        ELSE splitLines(Tail(t), Append(cur, Head(t)))
      VERSION == <<"V", "E", "R", "S", "I", "O", "N", ":">>
      property(record, line) ==
        LET colonIdx == indexOf(line, ":")
            rawKey == toUpperCase(SubSeq(line, 1, colonIdx - 1))
            key == IF indexOf(rawKey, ";") > 0 THEN split(rawKey, ";")[1] ELSE rawKey
            value == SubSeq(line, colonIdx + 1, Len(line))
        IN IF \/ colonIdx = 0
              \/ line \in {BEGIN_VCARD, END_VCARD}
              \/ SubSeq(line, 1, Min(8, Len(line))) = VERSION
           THEN record
           ELSE IF vcGet(record, key) = <<>> THEN vcPut(record, key, value)
           ELSE IF key \in {<<"E", "M", "A", "I", "L">>, <<"T", "E", "L">>}
             THEN vcPut(record, key, vcGet(record, key) \o <<",", " ">> \o value)
           ELSE record
      RECURSIVE properties(_, _)
      properties(record, lines) ==
        IF lines = <<>> THEN record
        ELSE properties(property(record, Head(lines)), Tail(lines))
  IN properties(<<>>, splitLines(unfold(vCardStr), <<>>))

\* readRecordAt on a record that is not cached: [ok, m], ok = FALSE for null
readRecordAt(file, positions, index, totalRecords, meta) ==
  LET str == readWindow(file, positions, index, totalRecords)
      endIdx == indexOf(str, NL)
      cut == IF endIdx # 0 THEN SubSeq(str, 1, endIdx - 1) ELSE str
      line == IF cut # <<>> /\ cut[Len(cut)] = CR THEN SubSeq(cut, 1, Len(cut) - 1) ELSE cut
      null == [ok |-> FALSE, m |-> <<>>]
      \* str.indexOf(sub), 1-based; 0 when absent
      indexOfStr(sub) ==
        LET at(i) == SubSeq(str, i, i + Len(sub) - 1) = sub
            starts == 1..(Len(str) - Len(sub) + 1)
        IN IF \E i \in starts : at(i)
           THEN CHOOSE i \in starts : at(i) /\ \A j \in 1..(i - 1) : ~at(j)
           ELSE 0
      RECURSIVE csvColumns(_, _, _)
      csvColumns(record, values, i) ==
        IF i > Len(meta.columns) THEN record
        ELSE csvColumns(vcPut(record, meta.columns[i],
                              IF i <= Len(values) THEN values[i] ELSE <<>>),
                        values, i + 1)
  IN IF meta.fileType = "csv" THEN
       [ok |-> TRUE,
        m |-> csvColumns(<<>>, parseCSVLine(line, IF meta.delimiter = "" THEN "," ELSE meta.delimiter), 1)]
     ELSE IF meta.format = "json-array" THEN
       LET obj == extractJSONObject(str)
       IN IF obj.ok THEN [ok |-> TRUE, m |-> recordOfObject(obj.v.m)] ELSE null
     ELSE IF meta.format = "vcf" \/ meta.fileType = "vcf" THEN
       LET endMarker == indexOfStr(END_VCARD)
       IN IF endMarker = 0 THEN null
          ELSE [ok |-> TRUE, m |-> parseVCard(SubSeq(str, 1, endMarker + 8))]
     ELSE
       LET obj == JSONparse(trim(line))
       IN IF trim(line) # <<>> /\ trim(line)[1] = "{" /\ obj.ok
          THEN [ok |-> TRUE, m |-> recordOfObject(obj.v.m)]
          ELSE null

\* FileReader.getRecord after getMeta and getPositions: record || {}
getRecord(file, positions, index, meta) ==
  readRecordAt(file, positions, index, meta.totalRecords, meta).m

(***************************************************************************)
(* One run of the worker on one source, pass by pass.                      *)
(*   psrc       the source file                                            *)
(*   pst        the state of the index function                            *)
(*   pout       the files written by writeIndexFiles                       *)
(*   pmsgs      the messages posted to the parent so far                   *)
(*   precord    the last answer of getRecord on the files written          *)
(*   pquery     the last answer of data:page, data:search or of a search   *)
(*              of the DatabaseManager on the rows of the files written    *)
(***************************************************************************)
VARIABLES psrc, pst, pout, pmsgs, precord, pquery

pvars == <<psrc, pst, pout, pmsgs, precord, pquery>>

NoRecord == [asked |-> FALSE, index |-> 0, record |-> <<>>]

\* no query answered yet
NoQuery ==
  [kind |-> "none", fields |-> <<>>, page |-> 0, limit |-> 0, status |-> "",
   results |-> <<>>, records |-> <<>>, totalRecords |-> 0,
   exact |-> FALSE, tags |-> <<>>, exactCount |-> 0, partialCount |-> 0]

PInit ==
  /\ psrc \in Sources
  /\ pst = NewParser(formatOf(psrc))
  /\ pout = [written |-> FALSE, indexBin |-> <<>>, searchTxt |-> <<>>, meta |-> NoMeta]
  /\ pmsgs = <<>>
  /\ precord = NoRecord
  /\ pquery = NoQuery

\* one pass of the chunk loop; the progress update is due on the first pass
\* (lastProgressUpdate = 0) and later whenever 100 ms have gone by
PLoopPass ==
  /\ pst.pc = "loop"
  /\ LET next == loopPass(pst, psrc.bytes, formatOf(psrc)) IN
       /\ pst' = next
       /\ \E due \in BOOLEAN :
            pmsgs' =
              IF next.pc = "loop" /\ (due \/ pmsgs = <<>>) /\ Len(pmsgs) < MaxProgress
              THEN Append(pmsgs, [type |-> "progress",
                                  percent |-> percentOf(next.globalByteOffset, Len(psrc.bytes)),
                                  recordsProcessed |-> next.totalRecords,
                                  eta |-> etaOf(next.globalByteOffset, Len(psrc.bytes))])
              ELSE pmsgs
  /\ UNCHANGED <<psrc, pout, precord, pquery>>

\* writeIndexFiles, then the complete message
PWriteIndexFiles ==
  /\ pst.pc = "write"
  /\ pout' = [written |-> TRUE, indexBin |-> indexBinOf(pst),
              searchTxt |-> searchTxtOf(pst), meta |-> metaOf(pst, psrc)]
  /\ pmsgs' = Append(pmsgs, [type |-> "complete", percent |-> 100,
                             recordsProcessed |-> pst.totalRecords])
  /\ pst' = [pst EXCEPT !.pc = "done"]
  /\ UNCHANGED <<psrc, precord, pquery>>

\* the index function threw: the catch of indexFile posts the error
PPostError ==
  /\ pst.pc = "error"
  /\ pmsgs' = Append(pmsgs, [type |-> "error", percent |-> 0, recordsProcessed |-> 0])
  /\ pst' = [pst EXCEPT !.pc = "done"]
  /\ UNCHANGED <<psrc, pout, precord, pquery>>

\* data:record for a row index below totalRecords, once the index is written
PGetRecord ==
  /\ pout.written
  /\ \E index \in 0..(pout.meta.totalRecords - 1) :
       precord' = [asked |-> TRUE, index |-> index,
                   record |-> getRecord(psrc.bytes, pout.indexBin, index, pout.meta)]
  /\ UNCHANGED <<psrc, pst, pout, pmsgs, pquery>>

PNext ==
  \/ PLoopPass
  \/ PWriteIndexFiles
  \/ PPostError
  \/ PGetRecord

(***************************************************************************)
(* The request API: one request and its response.                          *)
(*   apiReq     the request: its channel and its argument                  *)
(*   apiResp    the response the handler resolves with                     *)
(* A value of a request is given by its type and by what the validators    *)
(* look at: the characters of a file id, the number of a page or limit (an *)
(* integer, or a number that is none), the length of a key or of a string  *)
(* value of the filters.                                                   *)
(***************************************************************************)
VARIABLES apiReq, apiResp

avars == <<apiReq, apiResp>>

HexLower ==
  {"0", "1", "2", "3", "4", "5", "6", "7", "8", "9", "a", "b", "c", "d", "e", "f"}

\* validateFileId: the message it throws, "" when it returns
validateFileId(fileId) ==
  IF fileId.t # "string" THEN "File ID must be a string"
  ELSE IF ~(Len(fileId.s) = 16 /\ \A i \in 1..Len(fileId.s) : fileId.s[i] \in HexLower)
    THEN "Invalid file ID format"
  ELSE ""

\* validatePage
validatePage(page) ==
  IF page.t # "number" THEN "Page must be a number"
  ELSE IF ~page.int \/ page.n < 1 THEN "Page must be a positive integer"
  ELSE IF page.n > 1000000 THEN "Page number too large"
  ELSE ""

\* validateLimit
validateLimit(limit) ==
  IF limit.t # "number" THEN "Limit must be a number"
  ELSE IF ~limit.int \/ limit.n < 1 THEN "Limit must be a positive integer"
  ELSE IF limit.n > 1000 THEN "Limit too large (max 1000)"
  ELSE ""

\* validateFields: undefined and null are no fields; the entries are looked
\* at in order, the number of keys last
validateFields(fields) ==
  LET RECURSIVE entries(_)
      entries(es) ==
        IF es = <<>> THEN ""
        ELSE IF Head(es).key = 0 \/ Head(es).key > 256
          THEN "Field key must be a non-empty string (max 256 chars)"
        ELSE IF Head(es).value.t # "string" THEN "Field value must be a string"
        ELSE IF Head(es).value.len > 1000 THEN "Field value too long (max 1000 chars)"
        ELSE entries(Tail(es))
  IN IF fields.t \in {"undefined", "null"} THEN ""
     ELSE IF fields.t # "object" THEN "Fields must be an object"
     ELSE IF entries(fields.entries) # "" THEN entries(fields.entries)
     ELSE IF Len(fields.entries) > 50 THEN "Too many fields (max 50)"
     ELSE ""

\* validatePageQuery: filters that are falsy are not handed to validateFields
validatePageQuery(query) ==
  IF query.t # "object" THEN "Query must be an object"
  ELSE IF validateFileId(query.fileId) # "" THEN validateFileId(query.fileId)
  ELSE IF validatePage(query.page) # "" THEN validatePage(query.page)
  ELSE IF validateLimit(query.limit) # "" THEN validateLimit(query.limit)
  ELSE IF query.filters.truthy THEN validateFields(query.filters)
  ELSE ""

\* safeHandler: what the wrapped handler resolves with. An outcome is a
\* returned object, given by its field names, or a thrown error.
returned(fieldNames, error) ==
  [kind |-> "return", fields |-> fieldNames, validation |-> FALSE, message |-> error]
thrown(validation, message) ==
  [kind |-> "throw", fields |-> {}, validation |-> validation, message |-> message]

safeHandler(outcome, readerCalled) ==
  IF outcome.kind = "return"
  THEN [fields |-> outcome.fields, prefix |-> "", error |-> outcome.message, threw |-> FALSE,
        readerCalled |-> readerCalled]
  ELSE [fields |-> {"error"},
        prefix |-> IF outcome.validation THEN "Validation error: " ELSE "",
        error |-> outcome.message, threw |-> TRUE, readerCalled |-> readerCalled]

NoResponse ==
  [fields |-> {}, prefix |-> "", error |-> "", threw |-> FALSE, readerCalled |-> FALSE]

\* the values of the requests
Undefined == [t |-> "undefined", int |-> FALSE, n |-> 0]
Number(n) == [t |-> "number", int |-> TRUE, n |-> n]
\* a number that is no integer: n + 1/2, NaN, Infinity
NoInteger(n) == [t |-> "number", int |-> FALSE, n |-> n]
NumericString == [t |-> "string", int |-> FALSE, n |-> 1]

FILE_ID == <<"0", "1", "2", "3", "4", "5", "6", "7", "8", "9", "a", "b", "c", "d", "e", "f">>

FileIdInputs ==
  {[t |-> "undefined", s |-> <<>>],
   [t |-> "number", s |-> <<>>],
   [t |-> "string", s |-> FILE_ID],
   [t |-> "string", s |-> toUpperCase(FILE_ID)],
   [t |-> "string", s |-> Tail(FILE_ID)],
   [t |-> "string", s |-> FILE_ID \o <<"0">>],
   [t |-> "string", s |-> Tail(FILE_ID) \o <<"g">>],
   [t |-> "string", s |-> Tail(FILE_ID) \o <<NL>>]}

PageInputs ==
  {Undefined, NumericString, NoInteger(1), Number(-1), Number(0), Number(1),
   Number(1000000), Number(1000001)}

LimitInputs ==
  {Undefined, NumericString, NoInteger(1), Number(0), Number(1), Number(1000),
   Number(1001)}

Scalar(t, truthy) == [t |-> t, truthy |-> truthy, entries |-> <<>>]
Object(entries) == [t |-> "object", truthy |-> TRUE, entries |-> entries]
Entry(key, t, len) == [key |-> key, value |-> [t |-> t, len |-> len]]

FiltersInputs ==
  {Scalar("undefined", FALSE), Scalar("null", FALSE), Scalar("boolean", FALSE),
   Scalar("boolean", TRUE), Scalar("number", FALSE), Scalar("number", TRUE),
   Scalar("string", FALSE), Scalar("string", TRUE), Scalar("array", TRUE),
   Object(<<>>),
   Object(<<Entry(1, "string", 0)>>),
   Object(<<Entry(0, "string", 1)>>),
   Object(<<Entry(256, "string", 1000)>>),
   Object(<<Entry(257, "string", 1)>>),
   Object(<<Entry(1, "string", 1001)>>),
   Object(<<Entry(1, "number", 0)>>),
   Object(<<Entry(1, "object", 0)>>),
   Object(<<Entry(1, "string", 1), Entry(2, "string", 1001)>>),
   Object([i \in 1..50 |-> Entry(i, "string", 1)]),
   Object([i \in 1..51 |-> Entry(i, "string", 1)])}

NoQueryArgument ==
  [t |-> "undefined", fileId |-> [t |-> "undefined", s |-> <<>>], page |-> Undefined,
   limit |-> Undefined, filters |-> Scalar("undefined", FALSE)]

PageQueries ==
  {[t |-> "object", fileId |-> f, page |-> p, limit |-> l, filters |-> fs] :
     f \in FileIdInputs, p \in PageInputs, l \in LimitInputs, fs \in FiltersInputs}
  \cup {[NoQueryArgument EXCEPT !.t = t] : t \in {"undefined", "null", "string", "number"}}

\* no request: the state the other specifications leave alone
AIdle ==
  /\ apiReq = [channel |-> "none", query |-> NoQueryArgument]
  /\ apiResp = NoResponse

\* the data:page handler: validatePageQuery, then FileReader.getPage, which
\* returns a page or throws (no index of the file id)
DataPage ==
  /\ apiReq.channel = "data:page"
  /\ apiResp = NoResponse
  /\ \E message \in {validatePageQuery(apiReq.query)} :
       \E indexed \in BOOLEAN :
         apiResp' =
           IF message # "" THEN safeHandler(thrown(TRUE, message), FALSE)
           ELSE IF indexed
             THEN safeHandler(returned({"records", "page", "limit", "totalRecords",
                                        "totalPages", "from", "to"}, ""), TRUE)
           ELSE safeHandler(thrown(FALSE, "ENOENT"), TRUE)
  /\ UNCHANGED apiReq

\* the data:export handler: validateFileId on the file id of the options, the
\* catalog entry of the file, the save dialog, the pages of the reader, the
\* write of the file
DataExport ==
  /\ apiReq.channel = "data:export"
  /\ apiResp = NoResponse
  /\ \E message \in {validateFileId(apiReq.query.fileId)} :
       \E known \in BOOLEAN, canceled \in BOOLEAN, failed \in BOOLEAN :
         apiResp' =
           IF apiReq.query.t \in {"undefined", "null"}
             THEN safeHandler(thrown(FALSE, "Cannot read properties of undefined"), FALSE)
           ELSE IF message # "" THEN safeHandler(thrown(TRUE, message), FALSE)
           ELSE IF ~known THEN safeHandler(thrown(TRUE, "File not found"), FALSE)
           ELSE IF canceled
             THEN safeHandler(returned({"success", "error"}, "Export cancelled"), FALSE)
           ELSE IF failed THEN safeHandler(thrown(FALSE, "EACCES"), TRUE)
           ELSE safeHandler(returned({"success", "path"}, ""), TRUE)
  /\ UNCHANGED apiReq

ExportOptions ==
  {[NoQueryArgument EXCEPT !.t = "object", !.fileId = f] : f \in FileIdInputs}
  \cup {[NoQueryArgument EXCEPT !.t = t] : t \in {"undefined", "string"}}

(***************************************************************************)
(* Store: the list of the recent files.                                    *)
(*   recentList   Store.recentFiles, the file ids of its entries           *)
(*   recentJson   recent.json: absent, or the list last saved              *)
(*   lastAdded    for each file id the number of the addRecentFile call    *)
(*                that added it last, 0 when it was never added           *)
(*   adds         the number of addRecentFile calls so far                 *)
(***************************************************************************)
VARIABLES recentList, recentJson, lastAdded, adds

rvars == <<recentList, recentJson, lastAdded, adds>>

\* the list keeps 20 entries; the model keeps MaxRecent
MaxRecent == 3
RecentIds == 1..(MaxRecent + 2)
MaxAdds == 5

addRecentFileNoFilter(list, id) ==
  SubSeq(<<id>> \o list, 1, Min(Len(list) + 1, MaxRecent))

\* Store.addRecentFile, before saveRecent: filter, unshift, slice
addRecentFile(list, id) ==
  LET filtered == SelectSeq(list, LAMBDA f : f # id)
  IN SubSeq(<<id>> \o filtered, 1, Min(Len(filtered) + 1, MaxRecent))

\* Store.removeRecentFile, before saveRecent
removeRecentFile(list, id) == SelectSeq(list, LAMBDA f : f # id)

\* a new Store over no recent.json
RIdle ==
  /\ recentList = <<>>
  /\ recentJson = [exists |-> FALSE, data |-> <<>>]
  /\ lastAdded = [id \in RecentIds |-> 0]
  /\ adds = 0

AddRecentFile ==
  /\ adds < MaxAdds
  /\ \E id \in RecentIds :
       /\ recentList' = addRecentFile(recentList, id)
       /\ lastAdded' = [lastAdded EXCEPT ![id] = adds + 1]
  /\ adds' = adds + 1
  /\ recentJson' = [exists |-> TRUE, data |-> recentList']

RemoveRecentFile ==
  /\ \E id \in RecentIds : recentList' = removeRecentFile(recentList, id)
  /\ recentJson' = [exists |-> TRUE, data |-> recentList']
  /\ UNCHANGED <<lastAdded, adds>>

\* new Store(): loadRecent reads recent.json and drops the entries whose
\* file is gone (no file, or one of them)
LoadRecent ==
  /\ \E gone \in {{}} \cup {{id} : id \in RecentIds} :
       recentList' = IF recentJson.exists
                     THEN SelectSeq(recentJson.data, LAMBDA f : f \notin gone)
                     ELSE <<>>
  /\ UNCHANGED <<recentJson, lastAdded, adds>>

(***************************************************************************)
(* The notification store of the renderer, with the timers it starts.      *)
(*   notifications    the notifications of the store, in insertion order   *)
(*   notificationId   the module's counter of the ids                      *)
(*   timers           the pending setTimeout callbacks: the id to remove    *)
(*                    and the time the callback is due                     *)
(*   now              the clock, in ms                                     *)
(*   added            every notification ever added, by id: its duration   *)
(*                    and the time of the call                             *)
(*   lastCall         the last call of the store: its name, the id it was  *)
(*                    given, whether that id was in the store              *)
(*   dismissed        the ids removed by a call of the user interface      *)
(***************************************************************************)
VARIABLES notifications, notificationId, timers, now, added, lastCall, dismissed

nvars == <<notifications, notificationId, timers, now, added, lastCall, dismissed>>

\* duration: notification.duration ?? 5000
DEFAULT_DURATION == 5000
\* notify.error
ERROR_DURATION == 8000

MaxNotifications == 3
MaxTime == 9000

\* the durations of the calls: none given, persistent, and one of the tests
Durations ==
  {[given |-> FALSE, ms |-> 0], [given |-> TRUE, ms |-> 0], [given |-> TRUE, ms |-> 3000]}

removeFirst(list, id) == IF list = <<>> THEN list ELSE Tail(list)

setTimeoutAlways(pending, id, duration, at) ==
  pending \cup {[id |-> id, due |-> at + duration]}

\* if (duration && duration > 0) setTimeout(..., duration)
setTimeout(pending, id, duration, at) ==
  IF duration # 0 /\ duration > 0
  THEN pending \cup {[id |-> id, due |-> at + duration]}
  ELSE pending

\* removeNotification: the filter of the list
removeNotification(list, id) == SelectSeq(list, LAMBDA n : n.id # id)

hasId(list, id) == \E i \in 1..Len(list) : list[i].id = id

NIdle ==
  /\ notifications = <<>>
  /\ notificationId = 0
  /\ timers = {}
  /\ now = 0
  /\ added = <<>>
  /\ lastCall = [name |-> "none", id |-> 0, present |-> FALSE]
  /\ dismissed = {}

\* addNotification of a notification of the given type and duration
addNotification(type, d) ==
  LET id == notificationId + 1
      duration == IF d.given THEN d.ms ELSE DEFAULT_DURATION
  IN /\ notificationId' = id
     /\ notifications' = Append(notifications, [id |-> id, type |-> type, duration |-> duration])
     /\ timers' = setTimeout(timers, id, duration, now)
     /\ added' = Append(added, [duration |-> duration, at |-> now])
     /\ lastCall' = [name |-> "add", id |-> id, present |-> FALSE]
     /\ UNCHANGED <<now, dismissed>>

AddNotification ==
  /\ notificationId < MaxNotifications
  /\ \E d \in Durations : addNotification("info", d)

\* notify.error
NotifyError ==
  /\ notificationId < MaxNotifications
  /\ addNotification("error", [given |-> TRUE, ms |-> ERROR_DURATION])

\* removeNotification called by the user interface, with any id
RemoveNotification ==
  /\ \E id \in 1..(MaxNotifications + 1) :
       /\ notifications' = removeNotification(notifications, id)
       /\ lastCall' = [name |-> "remove", id |-> id, present |-> hasId(notifications, id)]
       /\ dismissed' = IF hasId(notifications, id) THEN dismissed \cup {id} ELSE dismissed
  /\ UNCHANGED <<notificationId, timers, now, added>>

\* clearAll of the notification store
ClearNotifications ==
  /\ notifications' = <<>>
  /\ lastCall' = [name |-> "clearAll", id |-> 0, present |-> FALSE]
  /\ dismissed' = dismissed \cup {notifications[i].id : i \in 1..Len(notifications)}
  /\ UNCHANGED <<notificationId, timers, now, added>>

\* a timer that is due runs its callback: get().removeNotification(id)
TimerFires ==
  /\ \E t \in timers :
       /\ t.due <= now
       /\ timers' = timers \ {t}
       /\ notifications' = removeNotification(notifications, t.id)
       /\ lastCall' = [name |-> "timer", id |-> t.id, present |-> hasId(notifications, t.id)]
  /\ UNCHANGED <<notificationId, now, added, dismissed>>

\* time passes, up to the next timer that is due
Tick ==
  /\ timers # {}
  /\ \A t \in timers : t.due > now
  /\ now' = CHOOSE due \in {t.due : t \in timers} : \A t \in timers : due <= t.due
  /\ now' <= MaxTime
  /\ UNCHANGED <<notifications, notificationId, timers, added, lastCall, dismissed>>

(***************************************************************************)
(* LRUCache of the FileReader: one cache under get and set.                *)
(*   lruCache    the Map of the cache: its [k, v] entries in the order of  *)
(*               their insertion                                           *)
(*   lastTouch   for each key the number of the call that touched it last  *)
(*               (a get that hit, or a set), 0 when none did               *)
(*   touches     the number of calls so far                                *)
(*   lruReturn   what the last get returned                                *)
(***************************************************************************)
VARIABLES lruCache, lastTouch, touches, lruReturn

lvars == <<lruCache, lastTouch, touches, lruReturn>>

\* maxSize: 1000 records, 10 position tables, 20 metas; MaxSize in the model
MaxSize == 2
CacheKeys == 1..(MaxSize + 2)
CacheValues == {"v", "w"}
MaxTouches == 5

lruHas(cache, key) == \E i \in 1..Len(cache) : cache[i].k = key

\* Map.delete
lruDelete(cache, key) == SelectSeq(cache, LAMBDA e : e.k # key)

lruValue(cache, key) == (CHOOSE e \in {cache[i] : i \in 1..Len(cache)} : e.k = key).v

lruGetNoMove(cache, key) == cache

\* LRUCache.get: the cache after the call (a hit moves the entry to the end)
lruGet(cache, key) ==
  IF lruHas(cache, key)
  THEN Append(lruDelete(cache, key), [k |-> key, v |-> lruValue(cache, key)])
  ELSE cache

\* LRUCache.set
lruSet(cache, key, value) ==
  LET room == IF lruHas(cache, key) THEN lruDelete(cache, key)
              ELSE IF Len(cache) >= MaxSize THEN Tail(cache)
              ELSE cache
  IN Append(room, [k |-> key, v |-> value])

LIdle ==
  /\ lruCache = <<>>
  /\ lastTouch = [key \in CacheKeys |-> 0]
  /\ touches = 0
  /\ lruReturn = "undefined"

LruGet ==
  /\ touches < MaxTouches
  /\ \E key \in CacheKeys :
       /\ lruCache' = lruGet(lruCache, key)
       /\ lruReturn' = IF lruHas(lruCache, key) THEN lruValue(lruCache, key) ELSE "undefined"
       /\ lastTouch' = IF lruHas(lruCache, key)
                       THEN [lastTouch EXCEPT ![key] = touches + 1] ELSE lastTouch
  /\ touches' = touches + 1

LruSet ==
  /\ touches < MaxTouches
  /\ \E key \in CacheKeys, value \in CacheValues :
       /\ lruCache' = lruSet(lruCache, key, value)
       /\ lastTouch' = [lastTouch EXCEPT ![key] = touches + 1]
  /\ touches' = touches + 1
  /\ UNCHANGED lruReturn

\* ---------------------------------------------------------------------------
\* The statistics accumulator of the worker: updateStats for every streamed
\* record, and the stats part of writeIndexFiles at the end of the stream.
\* ---------------------------------------------------------------------------

VARIABLES stats, statRows, statsWritten

svars == <<stats, statRows, statsWritten>>

\* the cap on tracked values of one column (100 in updateStats)
MaxTracked == 3

\* the number of leading columns that are tracked (10 in updateStats)
MaxStatColumns == 2

\* the number of values kept per column in stats.json (30 in writeIndexFiles)
MaxWritten == 2

\* the number of records streamed through the accumulator
MaxStatRows == 5

StatHeaders == <<"h1", "h2", "h3">>

TO_STRING == <<"t", "o", "S", "t", "r", "i", "n", "g">>

\* the records streamed: the first cell varies over plain values and the name
\* of an inherited function, one record differs in the second cell, and one
\* record has no cells at all (every values[i] is undefined)
StatRowInputs ==
  {<<a, <<"a">>, <<"a">>>> : a \in {<<"a">>, <<"b">>, <<"c">>, <<"d">>, TO_STRING}}
    \cup {<<<<"a">>, <<"b">>, <<"a">>>>, <<>>}

\* values[i] || ''
cell(values, i) == IF i <= Len(values) THEN values[i] ELSE <<>>

ownIndex(dist, value) ==
  IF \E k \in 1..Len(dist) : dist[k].v = value
    THEN CHOOSE k \in 1..Len(dist) : dist[k].v = value
    ELSE 0

\* stats[header][value]: the own property, else the property inherited from
\* Object.prototype, else undefined
statLookup(dist, value) ==
  IF ownIndex(dist, value) # 0
    THEN [kind |-> dist[ownIndex(dist, value)].kind, n |-> dist[ownIndex(dist, value)].n]
    ELSE IF value \in InheritedFunctions
           THEN [kind |-> "function", n |-> 0]
           ELSE [kind |-> "undefined", n |-> 0]

\* a count is truthy unless it is undefined (numbers stored are at least 1,
\* a function and a non-empty string are truthy)
truthy(x) == x.kind # "undefined"

\* (x || 0) + 1: a number is incremented, a function or a string is
\* concatenated with "1"
plusOne(x) ==
  CASE x.kind = "number" -> [kind |-> "number", n |-> x.n + 1]
    [] x.kind = "undefined" -> [kind |-> "number", n |-> 1]
    [] OTHER -> [kind |-> "string", n |-> 0]

\* stats[header][value] = ... : an own key keeps its place, a new key is last
statAssign(dist, value, x) ==
  IF ownIndex(dist, value) # 0
    THEN [dist EXCEPT ![ownIndex(dist, value)] = [v |-> value, kind |-> x.kind, n |-> x.n]]
    ELSE Append(dist, [v |-> value, kind |-> x.kind, n |-> x.n])

\* the same without the test of the cap
countAlways(dist, value) == statAssign(dist, value, plusOne(statLookup(dist, value)))

\* the body of the loop of updateStats for one column
countValue(dist, value) ==
  IF Len(dist) < MaxTracked \/ truthy(statLookup(dist, value))
    THEN statAssign(dist, value, plusOne(statLookup(dist, value)))
    ELSE dist

\* updateStats(stats, headers, values)
updateStats(st, headers, values) ==
  [i \in DOMAIN st |->
     IF i <= Min(Len(headers), MaxStatColumns)
       THEN [exists |-> TRUE, dist |-> countValue(st[i].dist, cell(values, i))]
       ELSE st[i]]

\* the place of an entry after sort((a, b) => b[1] - a[1]) when every count
\* is a number: the sort is stable and descending
rankOf(dist, k) ==
  1 + Cardinality({j \in 1..Len(dist) :
                     \/ dist[j].n > dist[k].n
                     \/ dist[j].n = dist[k].n /\ j < k})

\* the results sort((a, b) => b[1] - a[1]) can have: when a count is a string
\* the comparator yields NaN and the order is implementation-defined
sortedEntries(dist) ==
  IF \A k \in 1..Len(dist) : dist[k].kind = "number"
    THEN {[r \in 1..Len(dist) |-> dist[CHOOSE k \in 1..Len(dist) : rankOf(dist, k) = r]]}
    ELSE {[r \in 1..Len(dist) |-> dist[f[r]]] :
            f \in {g \in [1..Len(dist) -> 1..Len(dist)] :
                     \A a, b \in 1..Len(dist) : a # b => g[a] # g[b]}}

\* the stats entry of one column in writeIndexFiles: unique and the first
\* entries of the sorted distribution
writtenStats(column) ==
  {[exists |-> column.exists,
    unique |-> Len(column.dist),
    distribution |-> SubSeq(out, 1, Min(Len(out), MaxWritten))] :
     out \in sortedEntries(column.dist)}

NotWritten == <<>>

SIdle ==
  /\ stats = [i \in 1..Len(StatHeaders) |-> [exists |-> FALSE, dist |-> <<>>]]
  /\ statRows = <<>>
  /\ statsWritten = NotWritten

\* one record of the stream passes updateStats
UpdateStats ==
  /\ statsWritten = NotWritten
  /\ Len(statRows) < MaxStatRows
  /\ \E values \in StatRowInputs :
       /\ stats' = updateStats(stats, StatHeaders, values)
       /\ statRows' = Append(statRows, values)
  /\ UNCHANGED statsWritten

\* the end of the stream: writeIndexFiles writes the stats of every column
WriteStats ==
  /\ statsWritten = NotWritten
  /\ statRows # <<>>
  /\ \E w1 \in writtenStats(stats[1]), w2 \in writtenStats(stats[2]),
        w3 \in writtenStats(stats[3]) :
       statsWritten' = <<w1, w2, w3>>
  /\ UNCHANGED <<stats, statRows>>

\* ---------------------------------------------------------------------------
\* The delimiter peek of indexCSV: the file whose head is read and the
\* delimiter detected from it.
\* ---------------------------------------------------------------------------

VARIABLES peekFile, detected

dvars == <<peekFile, detected>>

\* the length of the files peeked
MaxPeekLen == 4

PeekAlphabet == {",", ";", TAB, "|", NL, "a"}

PeekFiles == UNION {[1..n -> PeekAlphabet] : n \in 0..MaxPeekLen}

NotPeeked == "none"

DIdle ==
  /\ peekFile = <<>>
  /\ detected = NotPeeked

\* the head of one run of indexCSV: the peek and detectDelimiter(firstLine)
PeekDelimiter ==
  \E file \in PeekFiles :
    /\ detected = NotPeeked
    /\ peekFile' = file
    /\ detected' = detectDelimiter(peekFirstLine(file))

\* ---------------------------------------------------------------------------
\* DataExplorer, the browse view: the state of the component (viewMode, page,
\* filters, data, isLoading) and the calls of loadData that are under way,
\* each with the page and filters its closure captured.
\* ---------------------------------------------------------------------------

VARIABLES viewMode, viewPage, viewFilters, viewData, isLoading, loads, fileTotal,
          answer, pending

bvars == <<viewMode, viewPage, viewFilters, viewData, isLoading, loads, fileTotal,
          answer, pending>>

\* retryCount < 3 in loadData
MAX_RETRIES == 3

\* one retry more
MAX_RETRIES_PLUS == MAX_RETRIES + 1

\* the calls of loadData the effect makes
MaxLoads == 3

\* the pages of the view
ViewPageInputs == {1, 2}

\* the records of the file in the catalog, file.info.totalRecords; 0 when
\* the catalog has none
FileRecords == 2

\* the filters of the view: none, or one filter
ViewFilterInputs == {"none", "x"}

NotMounted == "none"

\* the data displayed: a result, with the call of loadData that set it
NoData ==
  [viewPage |-> 0, viewFilters |-> "none", totalRecords |-> 0, null |-> TRUE,
   call |-> 0]

NoLoad ==
  [pc |-> "idle", viewPage |-> 0, viewFilters |-> "none", retryCount |-> 0,
   requests |-> 0]

\* a call that has ended
DoneLoad == [NoLoad EXCEPT !.pc = "done"]

\* the last answer to a request of a call
NoAnswer == "none"

BIdle ==
  /\ viewMode = NotMounted
  /\ viewPage = 1
  /\ viewFilters = "none"
  /\ viewData = NoData
  /\ isLoading = FALSE
  /\ loads = [i \in 1..MaxLoads |-> NoLoad]
  /\ fileTotal = 0
  /\ answer = NoAnswer
  /\ pending = <<>>

\* the condition of the retry in loadData
shouldRetryBelow(totalRecords, catalog, retryCount, most) ==
  totalRecords = 0 /\ catalog > 0 /\ retryCount < most

shouldRetryOnceMore(totalRecords, catalog, retryCount) ==
  shouldRetryBelow(totalRecords, catalog, retryCount, MAX_RETRIES_PLUS)

shouldRetry(totalRecords, catalog, retryCount) ==
  shouldRetryBelow(totalRecords, catalog, retryCount, MAX_RETRIES)

freeLoads(ls) == {i \in 1..MaxLoads : ls[i].pc = "idle"}

firstFree(ls) == CHOOSE i \in freeLoads(ls) : \A j \in freeLoads(ls) : i <= j

\* the requests the main process has not answered, in the order they were
\* sent: a request is the index of the call that awaits it
sent(queue, ls, mode) == IF mode # "browse" THEN queue ELSE Append(queue, firstFree(ls))

\* loadData() called by the effect, up to the await: a call whose closure
\* holds a view other than browse returns at once
called(ls, mode, p, f) ==
  IF mode # "browse" THEN ls
  ELSE [ls EXCEPT ![firstFree(ls)] =
          [pc |-> "awaiting", viewPage |-> p, viewFilters |-> f, retryCount |-> 0,
           requests |-> 1]]

\* the component is rendered for a file: the state is the initial one and
\* the effect calls loadData
Mount ==
  /\ viewMode = NotMounted
  /\ \E total \in {0, FileRecords} : fileTotal' = total
  /\ viewMode' = "browse"
  /\ loads' = called(loads, "browse", viewPage, viewFilters)
  /\ pending' = sent(pending, loads, "browse")
  /\ isLoading' = TRUE
  /\ UNCHANGED <<viewPage, viewFilters, viewData, answer>>

\* setPage(p) of the pagination: loadData changes with page, the effect
\* calls it
SetPage ==
  /\ viewMode = "browse"
  /\ freeLoads(loads) # {}
  /\ \E p \in ViewPageInputs :
       /\ p # viewPage
       /\ viewPage' = p
       /\ loads' = called(loads, viewMode, p, viewFilters)
       /\ pending' = sent(pending, loads, viewMode)
  /\ isLoading' = TRUE
  /\ UNCHANGED <<viewMode, viewFilters, viewData, fileTotal, answer>>

\* handleFilter: setFilters with a new object; the effects call loadData
\* with the page of this render and setPage(1), and when the page was not 1
\* the next render calls loadData again
HandleFilter ==
  /\ viewMode = "browse"
  /\ Cardinality(freeLoads(loads)) >= (IF viewPage = 1 THEN 1 ELSE 2)
  /\ \E f \in ViewFilterInputs :
       /\ viewFilters' = f
       /\ viewPage' = 1
       /\ loads' = IF viewPage = 1
                     THEN called(loads, viewMode, 1, f)
                     ELSE called(called(loads, viewMode, viewPage, f), viewMode, 1, f)
       /\ pending' = IF viewPage = 1
                       THEN sent(pending, loads, viewMode)
                       ELSE sent(sent(pending, loads, viewMode),
                                 called(loads, viewMode, viewPage, f), viewMode)
  /\ isLoading' = TRUE
  /\ UNCHANGED <<viewMode, viewData, fileTotal, answer>>

\* setViewMode of the mode toggle: loadData changes with viewMode and the
\* effect calls it; outside the browse view it returns at once
SetViewMode ==
  /\ viewMode # NotMounted
  /\ \E m \in {"browse", "search"} :
       /\ m # viewMode
       /\ m = "browse" => freeLoads(loads) # {}
       /\ viewMode' = m
       /\ loads' = called(loads, m, viewPage, viewFilters)
       /\ pending' = sent(pending, loads, m)
       /\ isLoading' = IF m = "browse" THEN TRUE ELSE isLoading
  /\ UNCHANGED <<viewPage, viewFilters, viewData, fileTotal, answer>>

\* the main process answers the oldest request and getPage of its call
\* resolves with a result: the retry is scheduled, or the result is set;
\* finally isLoading is false
PageResolves ==
  \E i \in 1..MaxLoads, totalRecords \in {0, FileRecords} :
    /\ pending # <<>>
    /\ i = Head(pending)
    /\ pending' = Tail(pending)
    /\ IF shouldRetry(totalRecords, fileTotal, loads[i].retryCount)
         THEN /\ loads' = [loads EXCEPT ![i].pc = "timer",
                                        ![i].retryCount = loads[i].retryCount + 1]
              /\ UNCHANGED viewData
         ELSE /\ loads' = [loads EXCEPT ![i] = DoneLoad]
              /\ viewData' = [viewPage |-> loads[i].viewPage,
                              viewFilters |-> loads[i].viewFilters,
                              totalRecords |-> totalRecords, null |-> FALSE,
                              call |-> i]
    /\ answer' = IF totalRecords = 0 THEN "empty" ELSE "rows"
    /\ isLoading' = FALSE
    /\ UNCHANGED <<viewMode, viewPage, viewFilters, fileTotal>>

\* the main process answers the oldest request with an error and getPage
\* of its call rejects: the error is logged; finally isLoading is false
PageRejects ==
  \E i \in 1..MaxLoads :
    /\ pending # <<>>
    /\ i = Head(pending)
    /\ pending' = Tail(pending)
    /\ loads' = [loads EXCEPT ![i] = DoneLoad]
    /\ answer' = "error"
    /\ isLoading' = FALSE
    /\ UNCHANGED <<viewMode, viewPage, viewFilters, viewData, fileTotal>>

\* the timer of a retry fires: loadData(retryCount + 1) of the same closure
RetryFires ==
  \E i \in 1..MaxLoads :
    /\ loads[i].pc = "timer"
    /\ loads' = [loads EXCEPT ![i].pc = "awaiting",
                              ![i].requests = loads[i].requests + 1]
    /\ pending' = Append(pending, i)
    /\ isLoading' = TRUE
    /\ UNCHANGED <<viewMode, viewPage, viewFilters, viewData, fileTotal, answer>>

\* ---------------------------------------------------------------------------
\* data:export, the loop that gathers the records to write: the rows of the
\* file that match the filters are given by their row indexes in ascending
\* order, and a page of FileReader.getPage is a slice of them.
\* ---------------------------------------------------------------------------

VARIABLES matching, maxRecords, exportPage, allRecords, hasMore, exportPc

evars == <<matching, maxRecords, exportPage, allRecords, hasMore, exportPc>>

\* pageSize of the export loop (1000 in the handler)
ExportPageSize == 2

\* the rows of the file
MaxRows == 5

\* the largest opts.limit
MaxExportLimit == 5

\* the rows that match, in ascending order of their row index
RECURSIVE ascending(_, _)
ascending(rows, from) ==
  IF from >= MaxRows THEN <<>>
  ELSE (IF from \in rows THEN <<from>> ELSE <<>>) \o ascending(rows, from + 1)

\* opts.limit || Infinity
limitOrInfinity(limit) ==
  IF limit = 0 THEN [finite |-> FALSE, n |-> 0] ELSE [finite |-> TRUE, n |-> limit]

\* allRecords.length < maxRecords
below(count, most) == ~most.finite \/ count < most.n

\* Math.ceil(a / b) for b > 0
ceilDiv(a, b) == (a + b - 1) \div b

\* Math.min(pageSize, maxRecords - allRecords.length)
nextLimit(count, most) ==
  IF most.finite THEN Min(ExportPageSize, most.n - count) ELSE ExportPageSize

\* FileReader.getPage: the rows at OFFSET (page - 1) * limit, LIMIT limit,
\* and totalPages = Math.ceil(total / limit)
exportGetPage(rows, page, limit) ==
  [records |-> SubSeq(rows, (page - 1) * limit + 1, Min((page - 1) * limit + limit, Len(rows))),
   totalPages |-> ceilDiv(Len(rows), limit)]

EIdle ==
  /\ matching = <<>>
  /\ maxRecords = limitOrInfinity(0)
  /\ exportPage = 1
  /\ allRecords = <<>>
  /\ hasMore = TRUE
  /\ exportPc = "idle"

\* the handler up to the loop, for a file, its filters and opts.limit
ExportStart ==
  /\ exportPc = "idle"
  /\ \E rows \in SUBSET (0..(MaxRows - 1)), limit \in 0..MaxExportLimit :
       /\ matching' = ascending(rows, 0)
       /\ maxRecords' = limitOrInfinity(limit)
  /\ exportPc' = "loop"
  /\ UNCHANGED <<exportPage, allRecords, hasMore>>

\* one pass of the loop
ExportPage ==
  /\ exportPc = "loop"
  /\ hasMore /\ below(Len(allRecords), maxRecords)
  /\ \E pageResult \in {exportGetPage(matching, exportPage,
                                      nextLimit(Len(allRecords), maxRecords))} :
       /\ allRecords' = allRecords \o pageResult.records
       /\ hasMore' = (exportPage < pageResult.totalPages)
  /\ exportPage' = exportPage + 1
  /\ UNCHANGED <<matching, maxRecords, exportPc>>

\* the loop has ended: allRecords is written to the file
ExportWrite ==
  /\ exportPc = "loop"
  /\ ~(hasMore /\ below(Len(allRecords), maxRecords))
  /\ exportPc' = "written"
  /\ UNCHANGED <<matching, maxRecords, exportPage, allRecords, hasMore>>

\* ---------------------------------------------------------------------------
\* The app store of the renderer: the open files, a Map from file-id to
\* {info, stats, isIndexing, indexProgress} in the order of insertion, and
\* activeFileId. storeCall is the last call made on the store.
\* ---------------------------------------------------------------------------

VARIABLES files, activeFileId, storeCall

ovars == <<files, activeFileId, storeCall>>

FileIds == {"f1", "f2", "f3"}

\* the FileInfo objects passed for one file-id
InfoVersions == {1, 2}

Null == "Null"

hasFile(fs, id) == \E k \in 1..Len(fs) : fs[k].id = id

fileIndex(fs, id) == CHOOSE k \in 1..Len(fs) : fs[k].id = id

\* the entry addFile stores for a file that is not open
newFile(info) ==
  [id |-> info.id, info |-> info.version, stats |-> Null, isIndexing |-> FALSE,
   indexProgress |-> Null]

\* Map.set: an existing key keeps its place, a new key is last
mapSet(fs, entry) ==
  IF hasFile(fs, entry.id)
    THEN [fs EXCEPT ![fileIndex(fs, entry.id)] = entry]
    ELSE Append(fs, entry)

\* Map.delete
mapDelete(fs, id) == SelectSeq(fs, LAMBDA e : e.id # id)

\* addFile with files.set for every id
addFileReplace(fs, info) == mapSet(fs, newFile(info))

\* the files of addFile: the entry is stored only for an id that is not open
addFile(fs, info) == IF ~hasFile(fs, info.id) THEN mapSet(fs, newFile(info)) ELSE fs

\* the activeFileId of removeFile: the first key of the files that are left
\* when the active file is removed
activeAfterRemove(fs, active, fileId) ==
  IF active = fileId
    THEN (IF Len(mapDelete(fs, fileId)) > 0 THEN mapDelete(fs, fileId)[1].id ELSE Null)
    ELSE active

OIdle ==
  /\ files = <<>>
  /\ activeFileId = Null
  /\ storeCall = [op |-> "none", id |-> Null]

AddFile ==
  \E id \in FileIds, version \in InfoVersions :
    /\ files' = addFile(files, [id |-> id, version |-> version])
    /\ activeFileId' = id
    /\ storeCall' = [op |-> "addFile", id |-> id]

RemoveFile ==
  \E fileId \in FileIds :
    /\ files' = mapDelete(files, fileId)
    /\ activeFileId' = activeAfterRemove(files, activeFileId, fileId)
    /\ storeCall' = [op |-> "removeFile", id |-> fileId]

\* updateFileStats: the stats of an open file
UpdateFileStats ==
  \E fileId \in FileIds :
    /\ files' = IF hasFile(files, fileId)
                  THEN mapSet(files, [files[fileIndex(files, fileId)] EXCEPT !.stats = "stats"])
                  ELSE files
    /\ storeCall' = [op |-> "updateFileStats", id |-> fileId]
    /\ UNCHANGED activeFileId

\* setIndexProgress: the progress of an open file
SetIndexProgress ==
  \E fileId \in FileIds :
    /\ files' = IF hasFile(files, fileId)
                  THEN mapSet(files, [files[fileIndex(files, fileId)] EXCEPT
                                        !.indexProgress = "progress"])
                  ELSE files
    /\ storeCall' = [op |-> "setIndexProgress", id |-> fileId]
    /\ UNCHANGED activeFileId

uvars == <<avars, rvars, nvars, lvars, svars, dvars, bvars, evars, ovars>>

UIdle == AIdle /\ RIdle /\ NIdle /\ LIdle /\ SIdle /\ DIdle /\ BIdle /\ EIdle /\ OIdle

(***************************************************************************)
(* The main process and its indexing workers, for one file-id.             *)
(*   csrc             the source file behind the file-id                   *)
(*   chunkLoop        the chunk loop of a worker on that file, which the   *)
(*                    file alone decides: the state after its first pass,  *)
(*                    and the state in which it exits or spins             *)
(*   disk             the four files of the file-id in the index directory *)
(*   dbState          DatabaseManager.db / sqlPromise: none, loading, ready*)
(*   file_indexes     the catalog row of the file-id                       *)
(*   search_data      the search rows of the file-id                       *)
(*   file_stats       the statistics row of the file-id                    *)
(*   metaCache        FileReader.metaCache entry of the file-id            *)
(*   positionsCache   FileReader.positionsCache entry of the file-id       *)
(*   recentFiles      the file-id is in Store.recentFiles                  *)
(*   workers          Indexer.workers entry of the file-id: a job, or 0    *)
(*   job              the index:start requests and their worker threads    *)
(*   microq           continuations ready to run on the main thread        *)
(*   dbWaiters        continuations waiting on sqlPromise                  *)
(*   pageResp         the last answer to data:page                         *)
(*   infoResp         the last answer to file:info                         *)
(*   disturbed        a cancel, remove-recent or clear-all has been issued *)
(*   nreq             requests issued so far                               *)
(*   lastReq          the kind of the latest request                       *)
(***************************************************************************)
VARIABLES csrc, chunkLoop, disk, dbState, file_indexes, search_data, file_stats,
          metaCache, positionsCache, recentFiles, workers, job, microq,
          dbWaiters, pageResp, infoResp, disturbed, nreq, lastReq,
          forgotAfterPage

cvars ==
  <<csrc, chunkLoop, disk, dbState, file_indexes, search_data, file_stats, metaCache,
    positionsCache, recentFiles, workers, job, microq, dbWaiters, pageResp,
    infoResp, disturbed, nreq, lastReq, forgotAfterPage>>

vars == <<pvars, cvars, uvars>>

\* index:start requests of one run
MaxJobs == 2
\* requests of one run, of any kind
MaxRequests == 4
\* largest page number and page size requested
MaxPage == 1
MaxLimit == 2

Jobs == 1..MaxJobs

\* a file with no record at all
EMPTY_CSV == <<>>

CoordSources ==
  {[ext |-> "json", bytes |-> NDJSON_NESTED],
   [ext |-> "json", bytes |-> NDJSON_NEWLINE],
   [ext |-> "json", bytes |-> NDJSON_OPEN],
   [ext |-> "csv", bytes |-> EMPTY_CSV]}

NoFile(empty) == [exists |-> FALSE, data |-> empty]
File(data) == [exists |-> TRUE, data |-> data]

NoDisk ==
  [indexBin |-> NoFile(<<>>), searchTxt |-> NoFile(<<>>),
   metaJson |-> NoFile(NoMeta), statsJson |-> NoFile(0)]

NoJob(src) ==
  [thread |-> "none", phase |-> "scan", st |-> NewParser(formatOf(src)),
   outbox |-> <<>>, exited |-> FALSE, promise |-> "pending",
   reply |-> "none", events |-> <<>>]

NoPage ==
  [status |-> "none", page |-> 0, limit |-> 0, records |-> <<>>,
   totalRecords |-> 0, clean |-> FALSE, sawCatalog |-> FALSE,
   catalogTotal |-> 0, sawRows |-> 0]

NoInfo == [indexed |-> "none", afterForget |-> FALSE, residue |-> FALSE, purging |-> FALSE]

\* a continuation: the rest of an async function after an await
Task ==
  [kind |-> "", job |-> 0, page |-> 0, limit |-> 0, clean |-> FALSE,
   meta |-> NoMeta, rows |-> <<>>, stats |-> 0, next |-> ""]

\* the state the parse specification leaves alone
PIdle ==
  /\ psrc = [ext |-> "csv", bytes |-> EMPTY_CSV]
  /\ pst = NewParser("csv")
  /\ pout = [written |-> FALSE, indexBin |-> <<>>, searchTxt |-> <<>>, meta |-> NoMeta]
  /\ pmsgs = <<>>
  /\ precord = NoRecord
  /\ pquery = NoQuery

\* a fresh installation: empty index directory, no search.db, no worker
Init ==
  /\ PIdle
  /\ UIdle
  /\ csrc \in CoordSources
  /\ \E format \in {formatOf(csrc)} :
       \E first \in {loopPass(NewParser(format), csrc.bytes, format)} :
         chunkLoop = [first |-> first, last |-> runLoop(first, csrc.bytes, format)]
  /\ disk = NoDisk
  /\ dbState = "none"
  /\ file_indexes = NoFile(NoMeta)
  /\ search_data = <<>>
  /\ file_stats = NoFile(0)
  /\ metaCache = NoFile(NoMeta)
  /\ positionsCache = NoFile(<<>>)
  /\ recentFiles = FALSE
  /\ workers = 0
  /\ job = [j \in Jobs |-> NoJob(csrc)]
  /\ microq = <<>>
  /\ dbWaiters = <<>>
  /\ pageResp = NoPage
  /\ infoResp = NoInfo
  /\ disturbed = FALSE
  /\ nreq = 0
  /\ lastReq = "none"
  /\ forgotAfterPage = FALSE

\* Indexer.emitProgress
emitProgress(events, status, percent, records, eta) ==
  Append(events, [status |-> status, percent |-> percent, records |-> records,
                  eta |-> eta])

\* await initDatabase(): the continuation runs at once when the database is
\* open, and after sqlPromise otherwise (the first caller starts the load)
awaitInitDatabase(q, task) ==
  IF dbState = "ready"
  THEN /\ microq' = Append(q, task)
       /\ UNCHANGED <<dbState, dbWaiters>>
  ELSE /\ dbState' = "loading"
       /\ dbWaiters' = Append(dbWaiters, task)
       /\ microq' = q

\* the sqlPromise of initDatabase settles: the database is open and empty
DbLoaded ==
  /\ dbState = "loading"
  /\ microq = <<>>
  /\ dbState' = "ready"
  /\ microq' = dbWaiters
  /\ dbWaiters' = <<>>
  /\ UNCHANGED <<pvars, uvars, forgotAfterPage, csrc, chunkLoop, disk, file_indexes, search_data, file_stats,
                 metaCache, positionsCache, recentFiles, workers, job,
                 pageResp, infoResp, disturbed, nreq, lastReq>>

(***************************************************************************)
(* The worker thread of a job. It runs in parallel with the main thread.   *)
(***************************************************************************)
WorkerVars ==
  <<pvars, uvars, forgotAfterPage, csrc, chunkLoop, dbState, file_indexes, search_data, file_stats, metaCache,
    positionsCache, recentFiles, workers, microq, dbWaiters, pageResp,
    infoResp, disturbed, nreq, lastReq>>

\* the first pass of the chunk loop, with the first progress message
WFirstPass(j) ==
  /\ job[j].thread = "run"
  /\ job[j].phase = "scan"
  /\ LET next == chunkLoop.first IN
       job' = [job EXCEPT
         ![j].st = next,
         ![j].phase = IF next.pc = "loop" THEN "rest" ELSE "bin",
         ![j].outbox =
           IF next.pc = "loop"
           THEN Append(@, [type |-> "progress",
                           percent |-> percentOf(next.globalByteOffset, Len(csrc.bytes)),
                           recordsProcessed |-> next.totalRecords,
                           eta |-> etaOf(next.globalByteOffset, Len(csrc.bytes))])
           ELSE @]
  /\ UNCHANGED <<WorkerVars, disk>>

\* the other passes of the chunk loop: to its exit, or for ever
WRestOfLoop(j) ==
  /\ job[j].thread = "run"
  /\ job[j].phase = "rest"
  /\ LET last == chunkLoop.last IN
       job' = [job EXCEPT
         ![j].st = last,
         ![j].phase = IF last.pc = "loop" THEN "hung" ELSE "bin"]
  /\ UNCHANGED <<WorkerVars, disk>>

\* writeIndexFiles: fs.writeFileSync of {id}.index.bin
WWriteIndexBin(j) ==
  /\ job[j].thread = "run"
  /\ job[j].phase = "bin"
  /\ job[j].st.pc = "write"
  /\ disk' = [disk EXCEPT !.indexBin = File(indexBinOf(job[j].st))]
  /\ job' = [job EXCEPT ![j].phase = "search"]
  /\ UNCHANGED WorkerVars

\* the index function threw, or writeFileSync throws in writeIndexFiles:
\* the catch of indexFile posts the error
WWriteFails(j) ==
  /\ job[j].thread = "run"
  /\ job[j].phase = "bin"
  /\ job' = [job EXCEPT
       ![j].phase = "end",
       ![j].thread = "ended",
       ![j].outbox = Append(@, [type |-> "error", percent |-> 0, recordsProcessed |-> 0])]
  /\ UNCHANGED <<WorkerVars, disk>>

\* writeIndexFiles: {id}.search.txt
WWriteSearchTxt(j) ==
  /\ job[j].thread = "run"
  /\ job[j].phase = "search"
  /\ disk' = [disk EXCEPT !.searchTxt = File(searchTxtOf(job[j].st))]
  /\ job' = [job EXCEPT ![j].phase = "meta"]
  /\ UNCHANGED WorkerVars

\* writeIndexFiles: {id}.meta.json
WWriteMetaJson(j) ==
  /\ job[j].thread = "run"
  /\ job[j].phase = "meta"
  /\ disk' = [disk EXCEPT !.metaJson = File(metaOf(job[j].st, csrc))]
  /\ job' = [job EXCEPT ![j].phase = "stats"]
  /\ UNCHANGED WorkerVars

\* writeIndexFiles: {id}.stats.json (its total)
WWriteStatsJson(j) ==
  /\ job[j].thread = "run"
  /\ job[j].phase = "stats"
  /\ disk' = [disk EXCEPT !.statsJson = File(job[j].st.totalRecords)]
  /\ job' = [job EXCEPT ![j].phase = "post"]
  /\ UNCHANGED WorkerVars

\* the complete message; the thread then runs out of work and ends
WPostComplete(j) ==
  /\ job[j].thread = "run"
  /\ job[j].phase = "post"
  /\ job' = [job EXCEPT
       ![j].phase = "end",
       ![j].thread = "ended",
       ![j].outbox = Append(@, [type |-> "complete", percent |-> 100,
                                recordsProcessed |-> job[j].st.totalRecords])]
  /\ UNCHANGED <<WorkerVars, disk>>

(***************************************************************************)
(* The handlers of the main thread. A handler starts only when no          *)
(* continuation is ready to run.                                           *)
(***************************************************************************)
\* the next job number, 0 when none is left
nextJob ==
  IF \E j \in Jobs : job[j].thread = "none"
  THEN CHOOSE j \in Jobs : job[j].thread = "none" /\ \A k \in 1..(j - 1) : job[k].thread # "none"
  ELSE 0

\* index:start up to its await: Indexer.indexFile emits 'indexing', creates
\* the worker and registers it under the file-id
StartIndex ==
  /\ microq = <<>>
  /\ nreq < MaxRequests
  /\ nreq' = nreq + 1
  /\ lastReq' = "start"
  /\ nextJob # 0
  /\ LET j == nextJob IN
       /\ job' = [job EXCEPT ![j].thread = "run",
                             ![j].events = emitProgress(@, "indexing", 0, 0, 0)]
       /\ workers' = j
  /\ UNCHANGED <<pvars, uvars, forgotAfterPage, csrc, chunkLoop, disk, dbState, file_indexes, search_data,
                 file_stats, metaCache, positionsCache, recentFiles, microq,
                 dbWaiters, pageResp, infoResp, disturbed>>

\* index:cancel with a registered worker: Indexer.cancel
CancelIndex ==
  /\ microq = <<>>
  /\ nreq < MaxRequests
  /\ workers # 0
  /\ job' = [job EXCEPT
       ![workers].thread = IF @ = "run" THEN "killed" ELSE @,
       ![workers].events = emitProgress(@, "cancelled", 0, 0, 0)]
  /\ workers' = 0
  /\ disturbed' = TRUE
  /\ nreq' = nreq + 1
  /\ lastReq' = "cancel"
  /\ UNCHANGED <<pvars, uvars, forgotAfterPage, csrc, chunkLoop, disk, dbState, file_indexes, search_data,
                 file_stats, metaCache, positionsCache, recentFiles, microq,
                 dbWaiters, pageResp, infoResp>>

\* resolve() or reject() of the promise of indexFile: the first one settles
\* it and readies the rest of the index:start handler
settle(j, how) ==
  IF job[j].promise = "pending"
  THEN [promise |-> how,
        tasks |-> <<[Task EXCEPT !.kind = IF how = "resolved" THEN "afterIndex" ELSE "indexFailed",
                                 !.job = j]>>]
  ELSE [promise |-> job[j].promise, tasks |-> <<>>]

MessageVars ==
  <<pvars, uvars, forgotAfterPage, csrc, chunkLoop, disk, dbState, file_indexes, search_data, file_stats,
    metaCache, positionsCache, recentFiles, dbWaiters, pageResp, infoResp,
    disturbed, nreq, lastReq>>

\* worker.on('message'), type progress
OnProgress(j) ==
  /\ microq = <<>>
  /\ job[j].outbox # <<>>
  /\ Head(job[j].outbox).type = "progress"
  /\ LET msg == Head(job[j].outbox) IN
       job' = [job EXCEPT
         ![j].outbox = Tail(@),
         ![j].events = emitProgress(@, "indexing", msg.percent, msg.recordsProcessed,
                                 msg.eta)]
  /\ UNCHANGED <<MessageVars, workers, microq>>

\* worker.on('message'), type complete
OnComplete(j) ==
  /\ microq = <<>>
  /\ job[j].outbox # <<>>
  /\ Head(job[j].outbox).type = "complete"
  /\ LET msg == Head(job[j].outbox)
         s == settle(j, "resolved")
     IN /\ job' = [job EXCEPT
             ![j].outbox = Tail(@),
             ![j].events = emitProgress(@, "complete", 100, msg.recordsProcessed, 0),
             ![j].promise = s.promise]
        /\ microq' = s.tasks
  /\ workers' = 0
  /\ UNCHANGED MessageVars

\* worker.on('message'), type error
OnError(j) ==
  /\ microq = <<>>
  /\ job[j].outbox # <<>>
  /\ Head(job[j].outbox).type = "error"
  /\ LET s == settle(j, "rejected") IN
       /\ job' = [job EXCEPT
            ![j].outbox = Tail(@),
            ![j].events = emitProgress(@, "error", 0, 0, 0),
            ![j].promise = s.promise]
       /\ microq' = s.tasks
  /\ workers' = 0
  /\ UNCHANGED MessageVars

\* worker.on('exit'): after the messages of the thread, with code 1 when it
\* was terminated and 0 when it ran out of work
OnExit(j) ==
  /\ microq = <<>>
  /\ job[j].thread \in {"killed", "ended"}
  /\ job[j].outbox = <<>>
  /\ ~job[j].exited
  /\ LET code == IF job[j].thread = "killed" THEN 1 ELSE 0
         s == IF code # 0 THEN settle(j, "rejected")
              ELSE [promise |-> job[j].promise, tasks |-> <<>>]
     IN /\ job' = [job EXCEPT ![j].exited = TRUE, ![j].promise = s.promise]
        /\ microq' = s.tasks
  /\ workers' = 0
  /\ UNCHANGED MessageVars

\* Store.getMeta: the catalog row, else {id}.meta.json, else null
storeGetMeta ==
  IF dbState = "ready" /\ file_indexes.exists THEN file_indexes
  ELSE disk.metaJson

\* the rest of index:start after indexFile resolved: the file joins the
\* recent list when its meta is found; the request is answered
AfterIndex ==
  /\ microq # <<>>
  /\ Head(microq).kind = "afterIndex"
  /\ recentFiles' = IF storeGetMeta.exists THEN TRUE ELSE recentFiles
  /\ job' = [job EXCEPT ![Head(microq).job].reply = "ok"]
  /\ microq' = Tail(microq)
  /\ UNCHANGED <<pvars, uvars, forgotAfterPage, csrc, chunkLoop, disk, dbState, file_indexes, search_data,
                 file_stats, metaCache, positionsCache, workers, dbWaiters,
                 pageResp, infoResp, disturbed, nreq, lastReq>>

\* safeHandler's catch after indexFile rejected: the answer is {error}
IndexFailed ==
  /\ microq # <<>>
  /\ Head(microq).kind = "indexFailed"
  /\ job' = [job EXCEPT ![Head(microq).job].reply = "error"]
  /\ microq' = Tail(microq)
  /\ UNCHANGED <<pvars, uvars, forgotAfterPage, csrc, chunkLoop, disk, dbState, file_indexes, search_data,
                 file_stats, metaCache, positionsCache, recentFiles, workers,
                 dbWaiters, pageResp, infoResp, disturbed, nreq, lastReq>>

(***************************************************************************)
(* DatabaseManager: the statements of its methods on the three tables.     *)
(***************************************************************************)
\* insertSearchData: col0..col5 of a row, lower-cased; NULL is <<>>
dbCols(cols) ==
  [k \in 1..6 |-> IF k <= Len(cols) THEN toLowerCase(cols[k]) ELSE <<>>]

\* ORDER BY row_index
RECURSIVE insertRow(_, _)
insertRow(sorted, row) ==
  IF sorted = <<>> THEN <<row>>
  ELSE IF row.rowIndex < Head(sorted).rowIndex THEN <<row>> \o sorted
  ELSE <<Head(sorted)>> \o insertRow(Tail(sorted), row)

RECURSIVE orderByRowIndex(_)
orderByRowIndex(rows) ==
  IF rows = <<>> THEN <<>>
  ELSE insertRow(orderByRowIndex(SubSeq(rows, 1, Len(rows) - 1)), rows[Len(rows)])

\* DatabaseManager.getPage without filters: no catalog row, no result
dbGetPage(page, limit) ==
  IF ~file_indexes.exists THEN <<>>
  ELSE LET rows == orderByRowIndex(search_data)
           offset == (page - 1) * limit
       IN SubSeq(rows, offset + 1, Min(offset + limit, Len(rows)))

\* DatabaseManager.countRecords without filters
countRecords == IF ~file_indexes.exists THEN 0 ELSE Len(search_data)

\* the continuation of saveFileMeta: INSERT OR REPLACE INTO file_indexes
SaveFileMeta ==
  /\ microq # <<>>
  /\ Head(microq).kind = "saveFileMeta"
  /\ file_indexes' = File(Head(microq).meta)
  /\ microq' = Tail(microq)
  /\ UNCHANGED <<pvars, uvars, forgotAfterPage, csrc, chunkLoop, disk, dbState, search_data, file_stats,
                 metaCache, positionsCache, recentFiles, workers, job,
                 dbWaiters, pageResp, infoResp, disturbed, nreq, lastReq>>

\* the continuation of insertSearchData: one transaction for all the rows
InsertSearchData ==
  /\ microq # <<>>
  /\ Head(microq).kind = "insertSearchData"
  /\ search_data' = search_data \o Head(microq).rows
  /\ microq' = Tail(microq)
  /\ UNCHANGED <<pvars, uvars, forgotAfterPage, csrc, chunkLoop, disk, dbState, file_indexes, file_stats,
                 metaCache, positionsCache, recentFiles, workers, job,
                 dbWaiters, pageResp, infoResp, disturbed, nreq, lastReq>>

\* the continuation of saveFileStats
SaveFileStats ==
  /\ microq # <<>>
  /\ Head(microq).kind = "saveFileStats"
  /\ file_stats' = File(Head(microq).stats)
  /\ microq' = Tail(microq)
  /\ UNCHANGED <<pvars, uvars, forgotAfterPage, csrc, chunkLoop, disk, dbState, file_indexes, search_data,
                 metaCache, positionsCache, recentFiles, workers, job,
                 dbWaiters, pageResp, infoResp, disturbed, nreq, lastReq>>

\* the continuation of deleteFile; when Store.deleteIndex awaits it, the
\* unlink loop of deleteIndex is readied
DeleteFile ==
  /\ microq # <<>>
  /\ Head(microq).kind = "deleteFile"
  /\ search_data' = <<>>
  /\ file_stats' = NoFile(0)
  /\ file_indexes' = NoFile(NoMeta)
  /\ microq' = IF Head(microq).next = "unlink"
               THEN Append(Tail(microq), [Task EXCEPT !.kind = "unlink"])
               ELSE Tail(microq)
  /\ UNCHANGED <<pvars, uvars, forgotAfterPage, csrc, chunkLoop, disk, dbState, metaCache, positionsCache,
                 recentFiles, workers, job, dbWaiters, pageResp, infoResp,
                 disturbed, nreq, lastReq>>

\* Store.deleteIndex after its await: unlink the four files
UnlinkIndexFiles ==
  /\ microq # <<>>
  /\ Head(microq).kind = "unlink"
  /\ disk' = NoDisk
  /\ microq' = Tail(microq)
  /\ UNCHANGED <<pvars, uvars, forgotAfterPage, csrc, chunkLoop, dbState, file_indexes, search_data, file_stats,
                 metaCache, positionsCache, recentFiles, workers, job,
                 dbWaiters, pageResp, infoResp, disturbed, nreq, lastReq>>

\* the continuation of clearAll
ClearAll ==
  /\ microq # <<>>
  /\ Head(microq).kind = "clearAll"
  /\ search_data' = <<>>
  /\ file_stats' = NoFile(0)
  /\ file_indexes' = NoFile(NoMeta)
  /\ microq' = Tail(microq)
  /\ UNCHANGED <<pvars, uvars, forgotAfterPage, csrc, chunkLoop, disk, dbState, metaCache, positionsCache,
                 recentFiles, workers, job, dbWaiters, pageResp, infoResp,
                 disturbed, nreq, lastReq>>

(***************************************************************************)
(* Store and FileReader requests.                                          *)
(***************************************************************************)
\* the answer of Store.isIndexed
storeIsIndexed ==
  /\ disk.indexBin.exists
  /\ \/ dbState = "ready" /\ file_indexes.exists
     \/ disk.metaJson.exists

\* the latest request is a file:remove-recent that has been answered
forgotten == lastReq = "remove" /\ microq = <<>> /\ dbWaiters = <<>>

\* file:info: Store.isIndexed, which starts deleteFile when {id}.index.bin
\* is missing (purging). The answer records whether the request follows an
\* answered file:remove-recent, and whether a file of the file-id is on disk.
ReqFileInfo ==
  /\ microq = <<>>
  /\ nreq < MaxRequests
  /\ nreq' = nreq + 1
  /\ lastReq' = "info"
  /\ IF ~disk.indexBin.exists
     THEN /\ awaitInitDatabase(<<>>, [Task EXCEPT !.kind = "deleteFile"])
          /\ infoResp' = [indexed |-> "no", afterForget |-> forgotten,
                          residue |-> disk # NoDisk, purging |-> TRUE]
     ELSE /\ infoResp' = [indexed |-> IF storeIsIndexed THEN "yes" ELSE "no",
                          afterForget |-> forgotten, residue |-> disk # NoDisk,
                          purging |-> FALSE]
          /\ UNCHANGED <<dbState, microq, dbWaiters>>
  /\ UNCHANGED <<pvars, uvars, forgotAfterPage, csrc, chunkLoop, disk, file_indexes, search_data, file_stats,
                 metaCache, positionsCache, recentFiles, workers, job,
                 pageResp, disturbed>>

\* file:remove-recent: Store.removeRecentFile up to the await in deleteFile;
\* forgotAfterPage records that the file was forgotten after a page of it
\* had been answered, requested first after the complete event of its job
ReqRemoveRecent ==
  /\ microq = <<>>
  /\ nreq < MaxRequests
  /\ nreq' = nreq + 1
  /\ lastReq' = "remove"
  /\ recentFiles' = FALSE
  /\ awaitInitDatabase(<<>>, [Task EXCEPT !.kind = "deleteFile", !.next = "unlink"])
  /\ disturbed' = TRUE
  /\ forgotAfterPage' =
       (forgotAfterPage \/ (metaCache.exists /\ pageResp.status = "ok" /\ pageResp.clean))
  /\ UNCHANGED <<pvars, uvars, csrc, chunkLoop, disk, file_indexes, search_data, file_stats,
                 metaCache, positionsCache, workers, job, pageResp, infoResp>>

\* file:clear-all: Store.clearIndexes up to the await in clearAll
ReqClearAll ==
  /\ microq = <<>>
  /\ nreq < MaxRequests
  /\ nreq' = nreq + 1
  /\ lastReq' = "clear"
  /\ disk' = NoDisk
  /\ recentFiles' = FALSE
  /\ awaitInitDatabase(<<>>, [Task EXCEPT !.kind = "clearAll"])
  /\ disturbed' = TRUE
  /\ UNCHANGED <<pvars, uvars, forgotAfterPage, csrc, chunkLoop, file_indexes, search_data, file_stats,
                 metaCache, positionsCache, workers, job, pageResp, infoResp>>

\* the request is the first one after the index:start of the file-id and
\* the complete event of that job
FirstAfterComplete ==
  /\ nreq = 1
  /\ job[1].events # <<>>
  /\ job[1].events[Len(job[1].events)].status = "complete"
  /\ \A j \in Jobs \ {1} : job[j].thread = "none"

\* data:page without filters: FileReader.getPage up to await ensureReady()
ReqPage(page, limit) ==
  /\ microq = <<>>
  /\ nreq < MaxRequests
  /\ nreq' = nreq + 1
  /\ lastReq' = "page"
  /\ awaitInitDatabase(<<>>, [Task EXCEPT !.kind = "getPage", !.page = page,
                                          !.limit = limit,
                                          !.clean = FirstAfterComplete])
  /\ UNCHANGED <<pvars, uvars, forgotAfterPage, csrc, chunkLoop, disk, file_indexes, search_data, file_stats,
                 metaCache, positionsCache, recentFiles, workers, job,
                 pageResp, infoResp, disturbed>>

\* importToSQLite: the rows handed to batch.insert
importRows(lines, positions) ==
  [i \in 1..Len(lines) |->
     [rowIndex |-> i - 1, position |-> positions[i],
      cols |-> dbCols(split(lines[i], "|"))]]

\* FileReader.getPage after ensureReady: getMeta (with importToSQLite on
\* the first read of {id}.meta.json), getPositions, the two queries, the
\* answer. The records of the answer are given by their row indexes.
GetPage ==
  /\ microq # <<>>
  /\ Head(microq).kind = "getPage"
  /\ LET t == Head(microq)
         cached == metaCache.exists
         fromDb == ~cached /\ file_indexes.exists
         fromFile == ~cached /\ ~fromDb /\ disk.metaJson.exists
         metaThrows == ~cached /\ ~fromDb /\ ~disk.metaJson.exists
         meta == IF cached THEN metaCache.data
                 ELSE IF fromDb THEN file_indexes.data ELSE disk.metaJson.data
         hasSearch == disk.searchTxt.exists /\ disk.indexBin.exists
         lines == split(disk.searchTxt.data, NL)
         positions == disk.indexBin.data
         importThrows == fromFile /\ hasSearch /\ Len(lines) > Len(positions)
         imports ==
           IF ~fromFile THEN <<>>
           ELSE <<[Task EXCEPT !.kind = "saveFileMeta", !.meta = meta]>>
                \o (IF hasSearch /\ ~importThrows
                    THEN <<[Task EXCEPT !.kind = "insertSearchData",
                                        !.rows = importRows(lines, positions)]>>
                    ELSE <<>>)
                \o (IF ~importThrows /\ disk.statsJson.exists
                    THEN <<[Task EXCEPT !.kind = "saveFileStats",
                                        !.stats = disk.statsJson.data]>>
                    ELSE <<>>)
         positionsThrow == ~positionsCache.exists /\ ~disk.indexBin.exists
         throws == metaThrows \/ importThrows \/ positionsThrow
         results == dbGetPage(t.page, t.limit)
     IN /\ metaCache' = IF metaThrows THEN metaCache ELSE File(meta)
        /\ positionsCache' =
             IF ~metaThrows /\ ~importThrows /\ ~positionsCache.exists /\ disk.indexBin.exists
             THEN File(disk.indexBin.data) ELSE positionsCache
        /\ microq' = Tail(microq) \o imports
        /\ pageResp' =
             IF throws
             THEN [NoPage EXCEPT !.status = "error", !.page = t.page, !.limit = t.limit,
                                 !.clean = t.clean /\ ~disturbed]
             ELSE [status |-> "ok", page |-> t.page, limit |-> t.limit,
                   records |-> [i \in 1..Len(results) |-> results[i].rowIndex],
                   totalRecords |-> countRecords,
                   clean |-> t.clean /\ ~disturbed,
                   sawCatalog |-> file_indexes.exists,
                   catalogTotal |-> file_indexes.data.totalRecords,
                   sawRows |-> Len(search_data)]
  /\ UNCHANGED <<pvars, uvars, forgotAfterPage, csrc, chunkLoop, disk, dbState, file_indexes, search_data,
                 file_stats, recentFiles, workers, job, dbWaiters, infoResp,
                 disturbed, nreq, lastReq>>

Worker(j) ==
  \/ WFirstPass(j)
  \/ WRestOfLoop(j)
  \/ WWriteIndexBin(j)
  \/ WWriteFails(j)
  \/ WWriteSearchTxt(j)
  \/ WWriteMetaJson(j)
  \/ WWriteStatsJson(j)
  \/ WPostComplete(j)

Next ==
  \/ StartIndex
  \/ CancelIndex
  \/ DbLoaded
  \/ ReqFileInfo
  \/ ReqRemoveRecent
  \/ ReqClearAll
  \/ \E page \in 1..MaxPage, limit \in 1..MaxLimit : ReqPage(page, limit)
  \/ GetPage
  \/ SaveFileMeta
  \/ InsertSearchData
  \/ SaveFileStats
  \/ DeleteFile
  \/ UnlinkIndexFiles
  \/ ClearAll
  \/ AfterIndex
  \/ IndexFailed
  \/ \E j \in Jobs :
       \/ Worker(j)
       \/ OnProgress(j)
       \/ OnComplete(j)
       \/ OnError(j)
       \/ OnExit(j)

Spec == Init /\ [][Next]_vars

\* the parse specification leaves the main process alone
CIdle ==
  /\ csrc = [ext |-> "csv", bytes |-> EMPTY_CSV]
  /\ chunkLoop = [first |-> NewParser("csv"), last |-> NewParser("csv")]
  /\ disk = NoDisk
  /\ dbState = "none"
  /\ file_indexes = NoFile(NoMeta)
  /\ search_data = <<>>
  /\ file_stats = NoFile(0)
  /\ metaCache = NoFile(NoMeta)
  /\ positionsCache = NoFile(<<>>)
  /\ recentFiles = FALSE
  /\ workers = 0
  /\ job = [j \in Jobs |-> NoJob(csrc)]
  /\ microq = <<>>
  /\ dbWaiters = <<>>
  /\ pageResp = NoPage
  /\ infoResp = NoInfo
  /\ disturbed = FALSE
  /\ nreq = 0
  /\ lastReq = "none"
  /\ forgotAfterPage = FALSE

ParseInit == PInit /\ CIdle /\ UIdle

ParseNext == PNext /\ UNCHANGED <<cvars, uvars>>

ParseSpec == ParseInit /\ [][ParseNext]_vars

(***************************************************************************)
(* DatabaseManager: the filtered queries, on the rows of one file and its  *)
(* searchable columns. A field is [col, value, operator]; operator "" is a *)
(* plain string value.                                                     *)
(***************************************************************************)
\* the LIKE operator of SQLite on a text that is not NULL: % is any run of
\* characters, _ is any one character, letters compare without case
RECURSIVE like(_, _)
like(s, pattern) ==
  IF pattern = <<>> THEN s = <<>>
  ELSE IF Head(pattern) = "%"
    THEN like(s, Tail(pattern)) \/ (s # <<>> /\ like(Tail(s), pattern))
  ELSE /\ s # <<>>
       /\ Head(pattern) = "_" \/ LowerChar(Head(pattern)) = LowerChar(Head(s))
       /\ like(Tail(s), Tail(pattern))

\* one condition of a WHERE clause on a row; a NULL column (<<>>) satisfies
\* IS NULL only
holds(row, cond) ==
  LET col == row.cols[cond.k]
  IN IF cond.op = "=" THEN col # <<>> /\ col = cond.arg
     ELSE IF cond.op = "LIKE" THEN col # <<>> /\ like(col, cond.arg)
     ELSE col = <<>> \/ ~like(col, cond.arg)

\* SELECT ... WHERE file_id = ? AND conditions ORDER BY row_index
where(rows, conditions) ==
  SelectSeq(orderByRowIndex(rows),
            LAMBDA row : \A i \in 1..Len(conditions) : holds(row, conditions[i]))

\* LIMIT ? OFFSET ?
limitOffset(rows, limit, offset) ==
  SubSeq(rows, offset + 1, Min(offset + limit, Len(rows)))

\* the conditions getPage and countRecords build from the filters
RECURSIVE filterConditions(_, _)
filterConditions(searchableCols, filters) ==
  IF filters = <<>> THEN <<>>
  ELSE LET colIndex == indexOf(searchableCols, Head(filters).col) - 1
           value == Head(filters).value
       IN (IF colIndex >= 0 /\ colIndex < 6 /\ value # <<>>
           THEN <<[k |-> colIndex + 1, op |-> "LIKE",
                   arg |-> <<"%">> \o toLowerCase(value) \o <<"%">>]>>
           ELSE <<>>)
          \o filterConditions(searchableCols, Tail(filters))

\* DatabaseManager.getPage with filters, the catalog row of the file present
getPageFiltered(rows, searchableCols, page, limit, filters) ==
  limitOffset(where(rows, filterConditions(searchableCols, filters)), limit,
              (page - 1) * limit)

\* DatabaseManager.countRecords with filters, the catalog row present
countFiltered(rows, searchableCols, filters) ==
  Len(where(rows, filterConditions(searchableCols, filters)))

\* DatabaseManager.regexToLike
regexToLike(regex) ==
  LET RECURSIVE dotStar(_)
      dotStar(s) ==
        IF s = <<>> THEN <<>>
        ELSE IF Len(s) >= 2 /\ s[1] = "." /\ s[2] = "*"
          THEN <<"%">> \o dotStar(SubSeq(s, 3, Len(s)))
        ELSE <<Head(s)>> \o dotStar(Tail(s))
      dot(s) == [i \in 1..Len(s) |-> IF s[i] = "." THEN "_" ELSE s[i]]
      pattern == SelectSeq(dot(dotStar(toLowerCase(regex))),
                           LAMBDA c : c \notin {"^", "$"})
  IN IF \A i \in 1..Len(pattern) : pattern[i] \notin {"%", "_"}
     THEN <<"%">> \o pattern \o <<"%">>
     ELSE pattern

\* the conditions DatabaseManager.search builds from the fields
RECURSIVE searchConditions(_, _)
searchConditions(searchableCols, fields) ==
  IF fields = <<>> THEN <<>>
  ELSE LET value == Head(fields).value
           operator == Head(fields).operator
           colIndex == indexOf(searchableCols, Head(fields).col) - 1
           lowerValue == toLowerCase(value)
           k == colIndex + 1
       IN (IF value = <<>> \/ colIndex < 0 \/ colIndex >= 6 THEN <<>>
           ELSE IF operator = "equals" THEN <<[k |-> k, op |-> "=", arg |-> lowerValue]>>
           ELSE IF operator = "startsWith"
             THEN <<[k |-> k, op |-> "LIKE", arg |-> lowerValue \o <<"%">>]>>
           ELSE IF operator = "endsWith"
             THEN <<[k |-> k, op |-> "LIKE", arg |-> <<"%">> \o lowerValue]>>
           ELSE IF operator = "not"
             THEN <<[k |-> k, op |-> "NOT LIKE", arg |-> <<"%">> \o lowerValue \o <<"%">>]>>
           ELSE IF operator = "regex"
             THEN <<[k |-> k, op |-> "LIKE", arg |-> regexToLike(value)]>>
           ELSE <<[k |-> k, op |-> "LIKE", arg |-> <<"%">> \o lowerValue \o <<"%">>]>>)
          \o searchConditions(searchableCols, Tail(fields))

\* the mutant of dbSearch for C20: no early return when there is no condition
dbSearchNoReturn(rows, searchableCols, fields, page, limit) ==
  LET matched == where(rows, searchConditions(searchableCols, fields))
  IN [results |-> limitOffset(matched, limit, (page - 1) * limit),
      total |-> Len(matched)]

\* DatabaseManager.search, the catalog row of the file present
dbSearch(rows, searchableCols, fields, page, limit) ==
  LET conditions == searchConditions(searchableCols, fields)
      matched == where(rows, conditions)
  IN IF conditions = <<>> THEN [results |-> <<>>, total |-> 0]
     ELSE [results |-> limitOffset(matched, limit, (page - 1) * limit),
           total |-> Len(matched)]

\* the mutant of searchResult for C21: every search counts as exact
searchResultAllExact(found, exact) ==
  [results |-> [i \in 1..Len(found.results) |->
                  [rowIndex |-> found.results[i].rowIndex, isExact |-> exact]],
   exactCount |-> found.total, partialCount |-> 0, total |-> found.total]

\* what DatabaseManager.search returns for the rows found: the tag of every
\* result and the two counts
searchResult(found, exact) ==
  [results |-> [i \in 1..Len(found.results) |->
                  [rowIndex |-> found.results[i].rowIndex, isExact |-> exact]],
   exactCount |-> IF exact THEN found.total ELSE 0,
   partialCount |-> IF exact THEN 0 ELSE found.total,
   total |-> found.total]

(***************************************************************************)
(* Queries on a file whose index is written and imported: data:page and    *)
(* data:search as the handlers answer them, and DatabaseManager.search     *)
(* called with fields of both shapes.                                      *)
(***************************************************************************)
\* scenario 6 of the specification, with a second column
CSV_NAMES ==
  <<"n", "a", "m", "e", ",", "t", NL, "a", "l", "i", "c", "e", ",", "a", NL,
    "a", "l", "i", "c", "i", "a", ",", "b", NL, "b", "o", "b", ",", "a", NL>>

QuerySources ==
  {[ext |-> "csv", bytes |-> CSV_NAMES],
   [ext |-> "json", bytes |-> NDJSON_NESTED],
   [ext |-> "json", bytes |-> JSON_ARRAY]}

\* pages and limits of the queries
QueryPages == 2
QueryLimit == 2

\* columns of fields that are tried: the first of the file and one it lacks
QueryColumns == 2
NoColumn == <<"z">>
columnsTried(meta) ==
  {meta.columns[i] : i \in 1..Min(Len(meta.columns), QueryColumns)} \cup {NoColumn}

FieldValues ==
  {<<>>, <<"a">>, <<"B", "o">>, <<"a", "l", "i">>, <<"c", "e">>,
   <<"a", "l", "i", "c", "e">>, <<"_", "l", "i">>,
   <<"^", "a", "l", "i", ".", "*">>}

Operators == {"contains", "equals", "startsWith", "endsWith", "not", "regex"}

\* no field, one field, or two fields on different columns
Fields(cols, operators) ==
  {<<>>}
  \cup {<<[col |-> c, value |-> v, operator |-> o]>> :
          c \in cols, v \in FieldValues, o \in operators}
  \cup {<<[col |-> c[1], value |-> <<"a", "l", "i">>, operator |-> o],
          [col |-> c[2], value |-> <<"a">>, operator |-> o]>> :
          c \in {d \in cols \X cols : d[1] # d[2]}, o \in operators}

\* the rows importToSQLite inserts for the files written
searchRows(out) == importRows(split(out.searchTxt, NL), out.indexBin)

\* the loop of getPage and search over the rows found: a record that
\* readRecordAt returns as null is left out
recordsRead(file, out, results) ==
  LET read == SelectSeq(results,
                LAMBDA r : readRecordAt(file, out.indexBin, r.rowIndex,
                                        out.meta.totalRecords, out.meta).ok)
  IN [i \in 1..Len(read) |-> read[i].rowIndex]

rowIndexes(results) == [i \in 1..Len(results) |-> results[i].rowIndex]

\* validateFields: a field value that is not a string is refused
validateFieldsThrows(fields) ==
  \E i \in 1..Len(fields) : fields[i].operator # ""

\* the index of the source, written and imported
QInit ==
  /\ psrc \in QuerySources
  /\ \E format \in {formatOf(psrc)} :
       \E last \in {runLoop(NewParser(format), psrc.bytes, format)} :
         /\ pst = [last EXCEPT !.pc = "done"]
         /\ pout = [written |-> TRUE, indexBin |-> indexBinOf(last),
                    searchTxt |-> searchTxtOf(last), meta |-> metaOf(last, psrc)]
         /\ pmsgs = <<[type |-> "complete", percent |-> 100,
                       recordsProcessed |-> last.totalRecords]>>
  /\ precord = NoRecord
  /\ pquery = NoQuery

\* data:page: validatePageQuery, then FileReader.getPage
PGetPage ==
  /\ pout.written
  /\ \E rows \in {searchRows(pout)}, page \in 1..QueryPages, limit \in 1..QueryLimit,
        filters \in Fields(columnsTried(pout.meta), {""}) :
       \E results \in {getPageFiltered(rows, pout.meta.searchableColumns, page, limit,
                                        filters)} :
          pquery' = [NoQuery EXCEPT
                     !.kind = "page", !.fields = filters, !.page = page,
                     !.limit = limit, !.status = "ok",
                     !.results = rowIndexes(results),
                     !.records = recordsRead(psrc.bytes, pout, results),
                     !.totalRecords = countFiltered(rows, pout.meta.searchableColumns, filters)]
  /\ UNCHANGED <<psrc, pst, pout, pmsgs, precord>>

\* the operators of the fields sent through data:search
RequestOperators == {"", "equals"}

\* data:search: validateSearchQuery, then FileReader.search; every record
\* read carries the tag of its result
PSearch ==
  /\ pout.written
  /\ \E rows \in {searchRows(pout)}, page \in 1..QueryPages, exact \in BOOLEAN,
        fields \in Fields(columnsTried(pout.meta), RequestOperators) :
       \E matched \in {dbSearch(rows, pout.meta.searchableColumns, fields, page,
                                 QueryLimit)} :
       \E found \in {searchResult(matched, exact)} :
       \E records \in {recordsRead(psrc.bytes, pout, found.results)} :
          pquery' =
            IF validateFieldsThrows(fields)
            THEN [NoQuery EXCEPT !.kind = "search", !.fields = fields, !.page = page,
                                 !.limit = QueryLimit, !.status = "error",
                                 !.exact = exact]
            ELSE [kind |-> "search", fields |-> fields, page |-> page,
                  limit |-> QueryLimit, status |-> "ok",
                  results |-> rowIndexes(found.results),
                  records |-> records,
                  totalRecords |-> found.total,
                  exact |-> exact,
                  tags |-> [i \in 1..Len(records) |->
                              (CHOOSE r \in {found.results[k] :
                                               k \in 1..Len(found.results)} :
                                 r.rowIndex = records[i]).isExact],
                  exactCount |-> found.exactCount,
                  partialCount |-> found.partialCount]
  /\ UNCHANGED <<psrc, pst, pout, pmsgs, precord>>

\* DatabaseManager.search called on the rows with fields of both shapes; the
\* exact flag is exercised by PSearch
PDbSearch ==
  /\ pout.written
  /\ \E rows \in {searchRows(pout)}, page \in 1..QueryPages, exact \in {FALSE},
        fields \in Fields(columnsTried(pout.meta), Operators \cup {""}) :
       \E matched \in {dbSearch(rows, pout.meta.searchableColumns, fields, page,
                                 QueryLimit)} :
       \E found \in {searchResult(matched, exact)} :
          pquery' = [kind |-> "dbSearch", fields |-> fields, page |-> page,
                     limit |-> QueryLimit, status |-> "ok",
                     results |-> rowIndexes(found.results),
                     records |-> <<>>,
                     totalRecords |-> found.total,
                     exact |-> exact,
                     tags |-> [i \in 1..Len(found.results) |->
                                 found.results[i].isExact],
                     exactCount |-> found.exactCount,
                     partialCount |-> found.partialCount]
  /\ UNCHANGED <<psrc, pst, pout, pmsgs, precord>>

QNext ==
  \/ PGetPage
  \/ PSearch
  \/ PDbSearch

QueryInit == QInit /\ CIdle /\ UIdle

QueryNext == QNext /\ UNCHANGED <<cvars, uvars>>

QuerySpec == QueryInit /\ [][QueryNext]_vars

(***************************************************************************)
(* The request API over every request of the two channels: the request is  *)
(* drawn at the start, its handler answers it.                             *)
(***************************************************************************)
ApiInit ==
  /\ PIdle
  /\ CIdle
  /\ OIdle
  /\ EIdle
  /\ BIdle
  /\ DIdle
  /\ SIdle
  /\ LIdle
  /\ RIdle
  /\ NIdle
  /\ apiReq \in {[channel |-> "data:page", query |-> q] : q \in PageQueries}
                \cup {[channel |-> "data:export", query |-> q] : q \in ExportOptions}
  /\ apiResp = NoResponse

ApiNext == (DataPage \/ DataExport) /\ UNCHANGED <<pvars, cvars, rvars, nvars, lvars, svars, dvars, bvars, evars, ovars>>

ApiSpec == ApiInit /\ [][ApiNext]_vars

(***************************************************************************)
(* The Store's recent list under addRecentFile, removeRecentFile and a     *)
(* restart of the application.                                            *)
(***************************************************************************)
RecentInit == PIdle /\ CIdle /\ UIdle

RecentNext ==
  (AddRecentFile \/ RemoveRecentFile \/ LoadRecent)
    /\ UNCHANGED <<pvars, cvars, avars, nvars, lvars, svars, dvars, bvars, evars, ovars>>

RecentSpec == RecentInit /\ [][RecentNext]_vars

(***************************************************************************)
(* The notification store under its calls, its timers and the clock.       *)
(***************************************************************************)
NotifyInit == PIdle /\ CIdle /\ UIdle

NotifyNext ==
  (AddNotification \/ NotifyError \/ RemoveNotification \/ ClearNotifications \/ TimerFires \/ Tick)
    /\ UNCHANGED <<pvars, cvars, avars, rvars, lvars, svars, dvars, bvars, evars, ovars>>

NotifySpec == NotifyInit /\ [][NotifyNext]_vars

(***************************************************************************)
(* One LRUCache under any calls of get and set.                            *)
(***************************************************************************)
LruInit == PIdle /\ CIdle /\ UIdle

LruNext ==
  (LruGet \/ LruSet)
    /\ UNCHANGED <<pvars, cvars, avars, rvars, nvars, svars, dvars, bvars, evars, ovars>>

LruSpec == LruInit /\ [][LruNext]_vars

StatsInit == PIdle /\ CIdle /\ UIdle

StatsNext ==
    /\ (UpdateStats \/ WriteStats)
    /\ UNCHANGED <<pvars, cvars, avars, rvars, nvars, lvars, dvars, bvars, evars, ovars>>

StatsSpec == StatsInit /\ [][StatsNext]_vars

DelimiterInit == PIdle /\ CIdle /\ UIdle

DelimiterNext ==
  PeekDelimiter
    /\ UNCHANGED <<pvars, cvars, avars, rvars, nvars, lvars, svars, bvars, evars, ovars>>

DelimiterSpec == DelimiterInit /\ [][DelimiterNext]_vars

BrowseInit == PIdle /\ CIdle /\ UIdle

BrowseNext ==
  (Mount \/ SetPage \/ HandleFilter \/ SetViewMode \/ PageResolves \/ PageRejects \/ RetryFires)
    /\ UNCHANGED <<pvars, cvars, avars, rvars, nvars, lvars, svars, dvars, evars, ovars>>

BrowseSpec == BrowseInit /\ [][BrowseNext]_vars

ExportInit == PIdle /\ CIdle /\ UIdle

ExportNext ==
  (ExportStart \/ ExportPage \/ ExportWrite)
    /\ UNCHANGED <<pvars, cvars, avars, rvars, nvars, lvars, svars, dvars, bvars, ovars>>

ExportSpec == ExportInit /\ [][ExportNext]_vars

StoreInit == PIdle /\ CIdle /\ UIdle

StoreNext ==
  (AddFile \/ RemoveFile \/ UpdateFileStats \/ SetIndexProgress)
    /\ UNCHANGED <<pvars, cvars, avars, rvars, nvars, lvars, svars, dvars, bvars, evars>>

StoreSpec == StoreInit /\ [][StoreNext]_vars



(***************************************************************************)
(* Claims.                                                                 *)
(***************************************************************************)
\* index of the last newline of a file, 0 when it has none: the offset of
\* the first byte after it
RECURSIVE lastNewline(_, _)
lastNewline(bytes, i) ==
  IF i = 0 THEN 0 ELSE IF bytes[i] = NL THEN i ELSE lastNewline(bytes, i - 1)

\* the last record of a CSV or NDJSON source is not followed by a newline
OpenLastRecord(src) ==
  LET from == lastNewline(src.bytes, Len(src.bytes))
      last == SubSeq(src.bytes, from + 1, Len(src.bytes))
  IN \/ formatOf(src) = "csv" /\ from > 0 /\ last # <<>>
     \/ /\ formatOf(src) = "ndjson"
        /\ trim(last) # <<>>
        /\ trim(last)[1] = "{"
        /\ JSONparse(trim(last)).ok

\* C1: the chunk loop exits once end of file has been reached: when
\* readSync has returned 0 bytes the worker is past its loop (and goes on to
\* writeIndexFiles and the complete message).
C1_LoopExitsAtEOF == pst.bytesRead = 0 => pst.pc # "loop"

\* C2: when the last record of a CSV or NDJSON file has no newline after
\* it, reaching end of file ends the scan with one final position entry for
\* that record, at the first byte after the preceding newline, counted in
\* totalRecords.
C2_FinalRecordIndexed ==
  (OpenLastRecord(psrc) /\ pst.bytesRead = 0) =>
    /\ pst.pc # "loop"
    /\ pst.positions # <<>>
    /\ pst.positions[Len(pst.positions)] = lastNewline(psrc.bytes, Len(psrc.bytes))
    /\ pst.totalRecords = Len(pst.positions)

\* the statuses of the events emitted for a job
statuses(j) == [i \in 1..Len(job[j].events) |-> job[j].events[i].status]

\* a cancelled event has been emitted for the job
cancelled(j) == \E i \in 1..Len(job[j].events) : statuses(j)[i] = "cancelled"

\* nothing is left to run on the main thread
quiescent == microq = <<>> /\ dbWaiters = <<>>

\* job 1 is the only index:start of the run
onlyJob1 == \A j \in Jobs \ {1} : job[j].thread = "none"

\* C3: once the only job of the file-id has been cancelled and its worker
\* has exited, index:start and index:cancel being the only requests, there
\* is no {id}.index.bin, no catalog row (file:info would answer
\* indexed = false) and no search row.
C3_CancelLeavesNothing ==
  (onlyJob1 /\ cancelled(1) /\ job[1].exited /\ quiescent /\ nreq = 2) =>
    /\ ~disk.indexBin.exists
    /\ ~file_indexes.exists
    /\ ~storeIsIndexed
    /\ search_data = <<>>

\* C4: at most one worker thread runs for the file-id, and a running worker
\* is the one registered in Indexer.workers, where index:cancel finds it.
C4_OneRegisteredWorker ==
  /\ Cardinality({j \in Jobs : job[j].thread = "run"}) <= 1
  /\ \A j \in Jobs : job[j].thread = "run" => workers = j

\* C5: cancelled is terminal: in the events of a job a cancelled event is
\* the last one, no indexing, complete or error event follows it.
C5_CancelledIsTerminal ==
  \A j \in Jobs : \A i \in 1..Len(job[j].events) :
    statuses(j)[i] = "cancelled" => i = Len(job[j].events)

\* C6: the index:start request of a cancelled job is never answered with an
\* error payload.
C6_CancelIsNoError ==
  \A j \in Jobs : cancelled(j) => job[j].reply # "error"

\* C7: the first data:page request for page 1 after the complete event of
\* a file-id with records, with nothing else issued, when it is answered
\* with a page, is answered with min(limit, total_records) records and
\* totalRecords = total_records.
C7_FirstPageIsFull ==
  (/\ pageResp.clean
   /\ pageResp.page = 1
   /\ pageResp.status = "ok"
   /\ job[1].st.totalRecords > 0) =>
    /\ Len(pageResp.records) = Min(pageResp.limit, job[1].st.totalRecords)
    /\ pageResp.totalRecords = job[1].st.totalRecords

\* C8: a data:page request that finds the catalog row of the file-id finds
\* all of its search rows too, as many as the total_records of the row.
C8_CatalogAndRowsTogether ==
  (pageResp.status = "ok" /\ pageResp.sawCatalog) =>
    pageResp.sawRows = pageResp.catalogTotal

\* the last event of job 1 is its complete event
completed1 ==
  /\ job[1].events # <<>>
  /\ statuses(1)[Len(job[1].events)] = "complete"

\* C9: when the index of the file-id has been loaded after its complete
\* event (catalog row present, no import step pending, one undisturbed
\* job), its search rows carry the row indexes 0 .. total_records - 1, each
\* exactly once.
C9_RowIndexesExact ==
  (file_indexes.exists /\ quiescent /\ onlyJob1 /\ completed1 /\ pageResp.clean) =>
    /\ Len(search_data) = file_indexes.data.totalRecords
    /\ \A r \in 0..(file_indexes.data.totalRecords - 1) :
         Cardinality({i \in 1..Len(search_data) : search_data[i].rowIndex = r}) = 1

\* C10: with nothing left to run on the main thread, a catalog entry of
\* the file-id (its file_indexes row, or file:info answering indexed) comes
\* with an existing {id}.index.bin.
C10_CatalogHasPositionTable ==
  (quiescent /\ (file_indexes.exists \/ storeIsIndexed)) => disk.indexBin.exists

\* C11: when indexing completes, {id}.index.bin holds as many 6-byte entries
\* as the totalRecords of {id}.meta.json (the total_records of the catalog
\* row made from it) and as the totalRecords of the complete message.
C11_EntriesEqualTotal ==
  pout.written =>
    /\ Len(pout.indexBin) = pout.meta.totalRecords
    /\ pmsgs[Len(pmsgs)].type = "complete"
    /\ pmsgs[Len(pmsgs)].recordsProcessed = Len(pout.indexBin)

\* C12: when indexing completes, the position table is strictly increasing
\* and every entry is an offset inside the file, for the four formats and
\* with records that straddle a chunk boundary.
C12_PositionsIncreasing ==
  pout.written =>
    /\ \A i \in 1..Len(pout.indexBin) :
         /\ 0 <= pout.indexBin[i]
         /\ pout.indexBin[i] < Len(psrc.bytes)
    /\ \A i \in 1..(Len(pout.indexBin) - 1) : pout.indexBin[i] < pout.indexBin[i + 1]

\* an index file is written whose second record starts more than a chunk
\* after the first: the first record straddles a chunk boundary
C12_Witness ==
  /\ pout.written
  /\ Len(pout.indexBin) >= 2
  /\ pout.indexBin[2] - pout.indexBin[1] > ChunkSize

\* C13: get_record of a completed index answers every row index below
\* total_records with a non-empty map.
C13_RecordNonEmpty == precord.asked => precord.record # <<>>

\* C14: file:info issued after an answered file:remove-recent reports
\* indexed = false, and finds no file of the file-id in the index directory.
C14_ForgottenIsUnindexed ==
  infoResp.afterForget => (infoResp.indexed = "no" /\ ~infoResp.residue)

\* C15: once a file:remove-recent or file:clear-all has been answered, the
\* record reader holds no cached metadata and no cached position buffer of
\* the file-id.
C15_NoCacheAfterForget ==
  (lastReq \in {"remove", "clear"} /\ quiescent) =>
    (~metaCache.exists /\ ~positionsCache.exists)

\* C16: file:info for a file-id without {id}.index.bin answers
\* indexed = false, and once its purge has run, with {id}.index.bin still
\* missing, search.db holds no catalog, stats or search row of the file-id.
C16_StaleRowsPurged ==
  (lastReq = "info" /\ infoResp.purging /\ quiescent /\ ~disk.indexBin.exists) =>
    /\ infoResp.indexed = "no"
    /\ ~file_indexes.exists
    /\ ~file_stats.exists
    /\ search_data = <<>>

\* the rows of the written index in ascending row_index order
tableRows == orderByRowIndex(searchRows(pout))

\* sub occurs in s
contains(s, sub) ==
  \E i \in 1..(Len(s) - Len(sub) + 1) : SubSeq(s, i, i + Len(sub) - 1) = sub

startsWith(s, sub) == Len(sub) <= Len(s) /\ SubSeq(s, 1, Len(sub)) = sub

endsWith(s, sub) == Len(sub) <= Len(s) /\ SubSeq(s, Len(s) - Len(sub) + 1, Len(s)) = sub

\* the place of a column among the searchable columns, 0 when it has none
searchableIndex(col) ==
  IF \E k \in 1..Min(6, Len(pout.meta.searchableColumns)) : pout.meta.searchableColumns[k] = col
  THEN CHOOSE k \in 1..Min(6, Len(pout.meta.searchableColumns)) :
         pout.meta.searchableColumns[k] = col
  ELSE 0

\* the row matches every filter on a searchable column: the lowercased
\* projection holds the lowercased substring
matchesFilters(row, filters) ==
  \A i \in 1..Len(filters) :
    searchableIndex(filters[i].col) # 0 =>
      contains(row.cols[searchableIndex(filters[i].col)], toLowerCase(filters[i].value))

\* the row indexes of the rows that match the filters, in ascending order
matchingRows(filters) ==
  rowIndexes(SelectSeq(tableRows, LAMBDA row : matchesFilters(row, filters)))

\* C17: a page holds exactly the matching rows whose rank in ascending
\* row_index order lies in [(p-1)*limit, p*limit), so that the pages
\* 1..totalPages hold every matching row once; totalRecords is the number of
\* matching rows; with no filter the matching rows are all rows of the file.
C17_PageIsRankRange ==
  pquery.kind = "page" =>
    /\ pquery.status = "ok"
    /\ pquery.records =
         SubSeq(matchingRows(pquery.fields), (pquery.page - 1) * pquery.limit + 1,
                Min(pquery.page * pquery.limit, Len(matchingRows(pquery.fields))))
    /\ pquery.totalRecords = Len(matchingRows(pquery.fields))
    /\ pquery.fields = <<>> => pquery.totalRecords = pout.meta.totalRecords

\* what an operator selects, on the lowercased projection and value
selects(operator, projection, value) ==
  IF operator = "equals" THEN projection = value
  ELSE IF operator = "startsWith" THEN startsWith(projection, value)
  ELSE IF operator = "endsWith" THEN endsWith(projection, value)
  ELSE operator = "not" /\ ~contains(projection, value)

\* every field names a searchable column, has a value, and one of the four
\* operators whose selection the claim states
plainFields(fields) ==
  /\ fields # <<>>
  /\ \A i \in 1..Len(fields) :
       /\ searchableIndex(fields[i].col) # 0
       /\ fields[i].value # <<>>
       /\ fields[i].operator \in {"equals", "startsWith", "endsWith", "not"}

\* the row indexes of the rows every field selects
selectedRows(fields) ==
  rowIndexes(SelectSeq(tableRows,
    LAMBDA row : \A i \in 1..Len(fields) :
      selects(fields[i].operator, row.cols[searchableIndex(fields[i].col)],
              toLowerCase(fields[i].value))))

\* a search of the name column of scenario 6 with one field
nameSearch(value, operator) ==
  /\ psrc.bytes = CSV_NAMES
  /\ pquery.fields =
       <<[col |-> <<"n", "a", "m", "e">>, value |-> value, operator |-> operator]>>

\* C18: on the names alice, alicia and bob, equals "alice" matches 1 row,
\* startsWith "ali" 2, endsWith "ce" 1, not "ali" 1 and regex "^ali.*" 2; each
\* operator selects exactly the rows whose lowercased projection equals,
\* starts with, ends with or does not contain the lowercased value, and the
\* fields of one search are combined with AND.
C18_OperatorsSelect ==
  pquery.kind = "dbSearch" =>
    /\ nameSearch(<<"a", "l", "i", "c", "e">>, "equals") => pquery.totalRecords = 1
    /\ nameSearch(<<"a", "l", "i">>, "startsWith") => pquery.totalRecords = 2
    /\ nameSearch(<<"c", "e">>, "endsWith") => pquery.totalRecords = 1
    /\ nameSearch(<<"a", "l", "i">>, "not") => pquery.totalRecords = 1
    /\ nameSearch(<<"^", "a", "l", "i", ".", "*">>, "regex") => pquery.totalRecords = 2
    /\ plainFields(pquery.fields) =>
         /\ pquery.totalRecords = Len(selectedRows(pquery.fields))
         /\ pquery.results =
              SubSeq(selectedRows(pquery.fields), (pquery.page - 1) * pquery.limit + 1,
                     Min(pquery.page * pquery.limit, Len(selectedRows(pquery.fields))))

\* every field is a (value, operator) pair with one of the six operators
operatorFields(fields) ==
  /\ fields # <<>>
  /\ \A i \in 1..Len(fields) : fields[i].operator \in Operators

\* C19: a data:search request whose field values are (value, operator) pairs
\* passes the validation of the request and is answered as
\* DatabaseManager.search answers these fields.
C19_OperatorFieldsAccepted ==
  (pquery.kind = "search" /\ operatorFields(pquery.fields)) =>
    /\ pquery.status = "ok"
    /\ pquery.totalRecords =
         dbSearch(searchRows(pout), pout.meta.searchableColumns, pquery.fields,
                  pquery.page, pquery.limit).total

\* every field value is empty, or no field names a searchable column
nothingToSearch(fields) ==
  \/ \A i \in 1..Len(fields) : fields[i].value = <<>>
  \/ \A i \in 1..Len(fields) : searchableIndex(fields[i].col) = 0

\* C20: a search of the DatabaseManager, or a data:search request with string
\* values, in which every field value is empty or no field names a searchable
\* column is answered without an error by an empty list and total = 0.
C20_NothingToSearchIsEmpty ==
  (/\ pquery.kind \in {"dbSearch", "search"}
   /\ pquery.kind = "search" => ~validateFieldsThrows(pquery.fields)
   /\ nothingToSearch(pquery.fields)) =>
    /\ pquery.status = "ok"
    /\ pquery.results = <<>>
    /\ pquery.records = <<>>
    /\ pquery.totalRecords = 0

\* an empty value with an operator on a searchable column of a file with rows
C20_Witness ==
  /\ pquery.kind = "dbSearch"
  /\ Len(pquery.fields) = 1
  /\ pquery.fields[1].value = <<>>
  /\ pquery.fields[1].operator = "equals"
  /\ searchableIndex(pquery.fields[1].col) # 0
  /\ pquery.status = "ok"
  /\ tableRows # <<>>

\* C21: every record of a search answer carries the exact flag of the
\* request; exactCount = total and partialCount = 0 when exact, exactCount = 0
\* and partialCount = total when not, so the two add up to totalRecords.
C21_ExactIsPassThrough ==
  (pquery.kind = "search" /\ pquery.status = "ok") =>
    /\ \A i \in 1..Len(pquery.tags) : pquery.tags[i] = pquery.exact
    /\ Len(pquery.tags) = Len(pquery.records)
    /\ pquery.exact => (pquery.exactCount = pquery.totalRecords /\ pquery.partialCount = 0)
    /\ ~pquery.exact => (pquery.exactCount = 0 /\ pquery.partialCount = pquery.totalRecords)
    /\ pquery.exactCount + pquery.partialCount = pquery.totalRecords

\* a search that is not exact and finds rows, answered through data:search
C21_Witness ==
  /\ pquery.kind = "search"
  /\ pquery.status = "ok"
  /\ ~pquery.exact
  /\ pquery.totalRecords > 0
  /\ pquery.records # <<>>

\* what the claim asks of a page request: the query is an object, and filters
\* are absent or an object within the limits
filtersWithinLimits(filters) ==
  \/ filters.t \in {"undefined", "null"}
  \/ /\ filters.t = "object"
     /\ Len(filters.entries) <= 50
     /\ \A i \in 1..Len(filters.entries) :
          /\ filters.entries[i].key \in 1..256
          /\ filters.entries[i].value.t = "string"
          /\ filters.entries[i].value.len <= 1000

pageRequestWithinLimits(query) ==
  /\ query.t = "object"
  /\ query.fileId.t = "string"
  /\ Len(query.fileId.s) = 16
  /\ \A i \in 1..Len(query.fileId.s) : query.fileId.s[i] \in HexLower
  /\ query.page.t = "number" /\ query.page.int /\ query.page.n \in 1..1000000
  /\ query.limit.t = "number" /\ query.limit.int /\ query.limit.n \in 1..1000
  /\ filtersWithinLimits(query.filters)

\* C22: a data:page request reaches the reader exactly when its file id is 16
\* lowercase hex characters, its page an integer of 1..1000000, its limit an
\* integer of 1..1000 and its filters, if any, an object of at most 50 keys of
\* 1..256 characters with string values of at most 1000 characters; every
\* other request is answered with a validation error and the reader is not
\* called.
C22_PageRequestAccepted ==
  (apiReq.channel = "data:page" /\ apiResp # NoResponse) =>
    IF pageRequestWithinLimits(apiReq.query)
    THEN apiResp.readerCalled /\ apiResp.prefix = ""
    ELSE /\ ~apiResp.readerCalled
         /\ apiResp.fields = {"error"}
         /\ apiResp.prefix = "Validation error: "

C24_PercentNeverDecreases ==
  \A j \in Jobs :
    /\ \A i \in 1..(Len(job[j].events) - 1) :
         job[j].events[i].percent <= job[j].events[i + 1].percent
    /\ (\E i \in 1..Len(job[j].events) : job[j].events[i].status = "complete") =>
         LET last == job[j].events[Len(job[j].events)] IN
           /\ last.status = "complete"
           /\ last.percent = 100
           /\ last.records = job[j].st.totalRecords
           /\ last.eta = 0

\* C25: the recent list holds at most MaxRecent entries (20 in the program),
\* no file id twice, and its entries in the order of their last addition,
\* the latest first.
C25_RecentListBounded ==
  /\ Len(recentList) <= MaxRecent
  /\ \A i, k \in 1..Len(recentList) : i # k => recentList[i] # recentList[k]
  /\ \A i, k \in 1..Len(recentList) :
       i < k => lastAdded[recentList[i]] > lastAdded[recentList[k]]
  /\ \A i \in 1..Len(recentList) : lastAdded[recentList[i]] > 0

\* the list is full, a file id that was added is no longer in it, and a file
\* id was added twice
C25_Witness ==
  /\ Len(recentList) = MaxRecent
  /\ \E id \in RecentIds :
       lastAdded[id] > 0 /\ \A i \in 1..Len(recentList) : recentList[i] # id
  /\ adds > Cardinality({id \in RecentIds : lastAdded[id] > 0})

\* C26: a notification that no call of the user interface removed is in the
\* store while less than its duration has passed since it was added and is
\* out of it once more has passed, when the duration is positive (5000 when
\* none was given, 8000 for notify.error); it stays when the duration is 0;
\* and the notifications of the store are in the order they were added.
C26_RemovedAtExpiry ==
  /\ \A id \in 1..Len(added) :
       id \notin dismissed =>
         /\ added[id].duration > 0 =>
              /\ now < added[id].at + added[id].duration => hasId(notifications, id)
              /\ now > added[id].at + added[id].duration => ~hasId(notifications, id)
         /\ added[id].duration = 0 => hasId(notifications, id)
  /\ \A i, k \in 1..Len(notifications) :
       i < k => notifications[i].id < notifications[k].id
  /\ \A i \in 1..Len(notifications) :
       /\ notifications[i].duration = added[notifications[i].id].duration
       /\ notifications[i].type = "error" => notifications[i].duration = ERROR_DURATION

\* three notifications were added; a timer removed one of them, a later one
\* with a longer duration and a persistent one are still in the store after
\* more than the default duration
C26_Witness ==
  /\ Len(added) = 3
  /\ dismissed = {}
  /\ Len(notifications) = 2
  /\ now > DEFAULT_DURATION
  /\ \E i \in 1..2 : notifications[i].duration = 0
  /\ \E i \in 1..2 : notifications[i].duration > 0

\* C27: a call of removeNotification, by the user interface or by a timer,
\* takes the notification of the given id out of the list and leaves the
\* others as they were, in their order; the list is unchanged when no
\* notification has the id.
C27_RemovesExactlyThat ==
  [][(now' = now /\ notificationId' = notificationId
        /\ lastCall'.name \in {"remove", "timer"}) =>
       LET id == lastCall'.id IN
         IF hasId(notifications, id)
         THEN \E i \in 1..Len(notifications) :
                /\ notifications[i].id = id
                /\ notifications' = SubSeq(notifications, 1, i - 1)
                                       \o SubSeq(notifications, i + 1, Len(notifications))
         ELSE notifications' = notifications]_nvars

\* a timer fired for a notification that a call had removed before, and the
\* store holds other notifications
C27_Witness ==
  /\ lastCall.name = "timer"
  /\ ~lastCall.present
  /\ lastCall.id \in dismissed
  /\ notifications # <<>>

\* the line of the file that starts at a byte offset, without its line end
lineAt(file, position) ==
  LET rest == SubSeq(file, position + 1, Len(file))
      end == IF indexOf(rest, NL) = 0 THEN Len(rest) ELSE indexOf(rest, NL) - 1
      line == SubSeq(rest, 1, end)
  IN IF line # <<>> /\ line[Len(line)] = CR THEN SubSeq(line, 1, Len(line) - 1) ELSE line

\* C28: when a CSV file is indexed, every entry of the position table is the
\* start of a line that has as many values as the header and an even number
\* of quotes, and the search rows and the record count match the table.
C28_MalformedLinesSkipped ==
  (formatOf(psrc) = "csv" /\ pst.pc = "done" /\ pout.written) =>
    /\ \A i \in 1..Len(pst.positions) :
         validateCSVLine(lineAt(psrc.bytes, pst.positions[i]),
                         detectDelimiter(peekFirstLine(psrc.bytes)), Len(pst.headers))
    /\ pst.totalRecords = Len(pst.positions)
    /\ Len(pst.searchLines) = Len(pst.positions)

\* the elements an array document was written from
elementsOf(file) ==
  CHOOSE es \in UNION {[1..n -> ArrayElements] : n \in 1..MaxElements} :
    arrayText(es) = file

\* the byte index of the k-th element of the document
elementOffset(es, k) ==
  IF k = 1 THEN 1 ELSE Len(arrayText(SubSeq(es, 1, k - 1)))

\* the byte indexes of the elements that are objects, in order
RECURSIVE objectOffsets(_, _)
objectOffsets(es, k) ==
  IF k > Len(es) THEN <<>>
  ELSE (IF es[k] \in ArrayObjects THEN <<elementOffset(es, k)>> ELSE <<>>)
         \o objectOffsets(es, k + 1)

\* C29: when the scanner has gone through a JSON array, the recorded offsets
\* are the byte indexes of the opening braces of the elements of the array
\* that are objects, one for each of them in order, whatever braces,
\* brackets, escaped quotes and escaped backslashes their strings hold, and
\* the scanner ends at depth 0 outside of a string.
C29_OffsetsOfTopLevelObjects ==
  (psrc \in ArraySources /\ pst.pc \in {"write", "done"}) =>
    /\ pst.positions = objectOffsets(elementsOf(psrc.bytes), 1)
    /\ pst.totalRecords = Len(pst.positions)
    /\ pst.depth = 0
    /\ ~pst.inString
    /\ ~pst.escapeNext

\* the index of an array of a string that holds a brace and an object whose
\* string holds an escaped quote and a brace
C29_Witness ==
  /\ psrc.bytes = arrayText(<<STR_BRACE, OBJ_QUOTE>>)
  /\ pst.pc = "done"
  /\ pout.written
  /\ pst.positions = <<5>>

\* C30: every key of a record that getRecord returns for an NDJSON or
\* JSON-array file is one of the columns of the file's meta, which are the
\* keys of the first decoded record.
C30_RecordKeysAreColumns ==
  (precord.asked /\ formatOf(psrc) \in {"ndjson", "json-array"}) =>
    \A i \in 1..Len(precord.record) :
      \E j \in 1..Len(pout.meta.columns) : pout.meta.columns[j] = precord.record[i].k

\* the value of a column in a record that getRecord returned, "" when the
\* record has no such key
valueOf(record, col) ==
  IF \E i \in 1..Len(record) : record[i].k = col
  THEN (CHOOSE e \in {record[i] : i \in 1..Len(record)} : e.k = col).v
  ELSE <<>>

\* the value without its pipes
withoutPipes(s) == SelectSeq(s, LAMBDA c : c # "|")

\* the record at a row index holds the value in the column, as a literal
\* substring of its lowercased value without pipes
recordHolds(index, col, value) ==
  contains(toLowerCase(withoutPipes(
             valueOf(getRecord(psrc.bytes, pout.indexBin, index, pout.meta), col))),
           toLowerCase(value))

\* a page request with one filter, on a searchable column, with a value
oneFilter(q) ==
  /\ q.kind = "page"
  /\ Len(q.fields) = 1
  /\ searchableIndex(q.fields[1].col) # 0
  /\ q.fields[1].value # <<>>

\* C31: a page filtered by one searchable column and a non-empty value holds
\* only rows whose record holds the value in that column, and counts exactly
\* the records of the file that do.
C31_FilterAgreesWithRecords ==
  oneFilter(pquery) =>
    /\ pquery.status = "ok"
    /\ \A k \in 1..Len(pquery.results) :
         recordHolds(pquery.results[k], pquery.fields[1].col, pquery.fields[1].value)
    /\ pquery.totalRecords =
         Cardinality({i \in 0..(pout.meta.totalRecords - 1) :
                        recordHolds(i, pquery.fields[1].col, pquery.fields[1].value)})

\* the keys that were touched, and those among them that MaxSize or more
\* other keys were touched after
touchedKeys == {key \in CacheKeys : lastTouch[key] > 0}
laterTouched(key) == {other \in touchedKeys : lastTouch[other] > lastTouch[key]}

\* C32: the cache never holds more than MaxSize entries (1000, 10 and 20 in
\* the program); it holds exactly the MaxSize keys touched last, a hit of get
\* and a set both being a touch, so that the key discarded for a new one is
\* the least recently touched; and its entries are in the order of their last
\* touch.
C32_LeastRecentlyTouchedGoes ==
  /\ Len(lruCache) <= MaxSize
  /\ \A key \in CacheKeys :
       lruHas(lruCache, key) <=>
         (key \in touchedKeys /\ Cardinality(laterTouched(key)) < MaxSize)
  /\ \A i, k \in 1..Len(lruCache) :
       i < k => lastTouch[lruCache[i].k] < lastTouch[lruCache[k].k]

\* the cache is full, two keys were discarded, and a get has hit
C32_Witness ==
  /\ Len(lruCache) = MaxSize
  /\ Cardinality({key \in touchedKeys : ~lruHas(lruCache, key)}) = 2
  /\ lruReturn # "undefined"


\* ---------------------------------------------------------------------------
\* C33: the caps of the statistics accumulator
\* ---------------------------------------------------------------------------

\* the cells streamed so far for one column, values[i] || ''
columnCells(i) == [k \in 1..Len(statRows) |-> cell(statRows[k], i)]

RECURSIVE distinctInOrder(_)
distinctInOrder(s) ==
  IF s = <<>> THEN <<>>
  ELSE LET front == distinctInOrder(SubSeq(s, 1, Len(s) - 1))
       IN IF \E k \in 1..Len(front) : front[k] = s[Len(s)]
            THEN front
            ELSE Append(front, s[Len(s)])

occurrences(s, value) == Cardinality({k \in 1..Len(s) : s[k] = value})

\* the values a column tracks under the caps: the first MaxTracked distinct
\* values of the column, each with the number of its occurrences
trackedExactly(dist, cells) ==
  LET first == distinctInOrder(cells)
  IN /\ Len(dist) = Min(Len(first), MaxTracked)
     /\ \A k \in 1..Len(dist) :
          /\ dist[k].v = first[k]
          /\ dist[k].kind = "number"
          /\ dist[k].n = occurrences(cells, first[k])

\* the written entry keeps at most MaxWritten values, and no value left out
\* has a higher count than a value kept
keepsHighest(dist, w) ==
  /\ Len(w.distribution) <= MaxWritten
  /\ Len(w.distribution) = Min(Len(dist), MaxWritten)
  /\ \A k \in 1..Len(w.distribution) :
       /\ w.distribution[k].kind = "number"
       /\ \E j \in 1..Len(dist) : dist[j] = w.distribution[k]
       /\ \A j \in 1..Len(dist) :
            (\A m \in 1..Len(w.distribution) : w.distribution[m].v # dist[j].v)
              => dist[j].n <= w.distribution[k].n

\* C33: a column never tracks more than MaxTracked distinct values, only the
\* first MaxStatColumns columns are tracked, a tracked value is counted
\* exactly, a value first seen after the cap is not added, and the written
\* stats keep at most the MaxWritten values with the highest counts
C33_StatsCapsHold ==
  /\ \A i \in DOMAIN stats :
       /\ Len(stats[i].dist) <= MaxTracked
       /\ stats[i].exists <=> (i <= MaxStatColumns /\ statRows # <<>>)
       /\ IF i <= MaxStatColumns
            THEN trackedExactly(stats[i].dist, columnCells(i))
            ELSE stats[i].dist = <<>>
  /\ statsWritten # NotWritten =>
       \A i \in DOMAIN stats : keepsHighest(stats[i].dist, statsWritten[i])


\* ---------------------------------------------------------------------------
\* C34: the delimiter is the most frequent candidate of the first line
\* ---------------------------------------------------------------------------

\* the first line of a file: the bytes before the first line feed, the whole
\* file when it has none
firstLineOf(file) ==
  IF indexOf(file, NL) = 0 THEN file ELSE SubSeq(file, 1, indexOf(file, NL) - 1)

Candidates == <<",", ";", TAB, "|">>

\* d is the candidate that occurs most often in line, the earliest of the
\* candidates with the highest count, and ',' when no candidate occurs
mostFrequentIn(line, d) ==
  IF \A k \in 1..Len(Candidates) : countChar(line, Candidates[k]) = 0
    THEN d = ","
    ELSE \E k \in 1..Len(Candidates) :
           /\ d = Candidates[k]
           /\ \A j \in 1..Len(Candidates) : countChar(line, Candidates[j]) <= countChar(line, d)
           /\ \A j \in 1..(k - 1) : countChar(line, Candidates[j]) < countChar(line, d)

\* C34: the delimiter chosen for a CSV file is the candidate among ',', ';',
\* tab and '|' with the highest count in the first line of the file, the
\* earliest of them on a tie, and ',' when none occurs
C34_DelimiterOfFirstLine ==
  detected # NotPeeked => mostFrequentIn(firstLineOf(peekFile), detected)


\* ---------------------------------------------------------------------------
\* C35: the retries of one load of the browse view
\* ---------------------------------------------------------------------------

\* the result of a request of a call as the view shows it
shownOf(i, result) ==
  [viewPage |-> loads[i].viewPage, viewFilters |-> loads[i].viewFilters,
   totalRecords |-> IF result = "rows" THEN FileRecords ELSE 0, null |-> FALSE,
   call |-> i]

\* C35: one load makes at most four requests; a request is retried only
\* when it reports no records while the catalog has some and fewer than three
\* retries were made; a result that is not retried is shown at once (a result
\* with records always, an empty one after the third retry or when the
\* catalog has no records) and the loading state ends
C35_RetryAtMostThrice ==
  [][\A i \in 1..MaxLoads :
       /\ loads'[i].requests <= MAX_RETRIES + 1
       /\ loads[i].pc = "awaiting" /\ loads'[i].pc = "timer" =>
            /\ answer' = "empty"
            /\ fileTotal > 0
            /\ loads[i].requests <= MAX_RETRIES
       /\ loads[i].pc = "awaiting" /\ loads'[i].pc = "done" /\ answer' # "error" =>
            /\ viewData' = shownOf(i, answer')
            /\ ~isLoading'
            /\ answer' = "empty" =>
                 fileTotal = 0 \/ loads[i].requests = MAX_RETRIES + 1
       /\ loads[i].pc = "awaiting" /\ loads'[i].pc # "awaiting" /\ answer' = "rows" =>
            loads'[i].pc = "done"]_vars

C35_Witness ==
  /\ answer = "empty"
  /\ ~viewData.null
  /\ viewData.totalRecords = 0
  /\ ~isLoading
  /\ fileTotal > 0


\* ---------------------------------------------------------------------------
\* C39: the browse view shows the result of the latest request
\* ---------------------------------------------------------------------------

\* C39: the data displayed is never replaced by the result of a request
\* made earlier (the calls of loadData are numbered in the order the effect
\* makes them): neither a late response nor a retry after an empty result
\* of an earlier page and filters takes the place of a later result
C39_LatestResultStays ==
  [][viewData' # viewData => viewData'.call >= viewData.call]_vars


\* ---------------------------------------------------------------------------
\* C36: a job started after a cancel, before the exit of the old worker
\* ---------------------------------------------------------------------------

\* C36: handling the exit event of a worker that was terminated by a cancel
\* leaves the worker that was started and registered since, and is still
\* running, registered in Indexer.workers, where a later index:cancel finds
\* and terminates it
C36_ExitKeepsNewWorker ==
  [][\A j \in Jobs :
       (job[j].thread = "killed" /\ ~job[j].exited /\ job'[j].exited) =>
         \A k \in Jobs \ {j} :
           (workers = k /\ job[k].thread = "run") => workers' = k]_vars


\* ---------------------------------------------------------------------------
\* C37: a file forgotten and indexed again is paged again
\* ---------------------------------------------------------------------------

\* the file was paged, then forgotten, and the index:start that followed has
\* been answered after the complete event of its job: the index files of
\* the file are on disk again and nothing is left to run
indexedAgain ==
  /\ forgotAfterPage
  /\ lastReq = "start"
  /\ quiescent
  /\ \A j \in Jobs : job[j].thread # "none" => job[j].reply = "ok" /\ job[j].exited
  /\ disk.metaJson.exists
  /\ disk.metaJson.data.totalRecords > 0

\* the rows of the file are in the secondary index
rowsThere ==
  /\ file_indexes.exists
  /\ Len(search_data) = disk.metaJson.data.totalRecords

\* getMeta of the next data:page reads {id}.meta.json and starts
\* importToSQLite: neither metaCache nor the catalog has the file
nextPageImports == ~metaCache.exists /\ ~file_indexes.exists

\* C37: once a file that was paged and then forgotten is indexed again, its
\* rows are in the secondary index or the next data:page puts them there, so
\* that page 1 comes to be answered with the records and totalRecords =
\* total_records
C37_ForgottenFileIsPagedAgain ==
  indexedAgain => rowsThere \/ nextPageImports


\* ---------------------------------------------------------------------------
\* C38: the records an export with a limit writes
\* ---------------------------------------------------------------------------

\* the first min(L, number of matching rows) matching rows; all of them
\* when no limit is given
firstMatching ==
  SubSeq(matching, 1,
         IF maxRecords.finite THEN Min(maxRecords.n, Len(matching)) ELSE Len(matching))

\* C38: the export writes the first min(L, matching rows) matching records
\* in ascending row order, each once, whatever L is with respect to the page
\* size of the loop, and the loop ends: it makes no more passes than there
\* are matching rows, plus one
C38_ExportWritesFirstRows ==
  /\ exportPc = "written" => allRecords = firstMatching
  /\ exportPage <= Len(matching) + 2


\* ---------------------------------------------------------------------------
\* C40: activeFileId and the open files of the app store
\* ---------------------------------------------------------------------------

openIds == {files[k].id : k \in 1..Len(files)}

\* activeFileId is null exactly when no file is open, and is otherwise the
\* id of an open file
activeIsOpen ==
  IF files = <<>> THEN activeFileId = Null ELSE activeFileId \in openIds

\* a step of addFile for an open id makes it active and leaves the files as
\* they are; a step of removeFile for a file that is not the active one
\* leaves activeFileId as it is
callsKeep ==
  /\ (storeCall'.op = "addFile" /\ storeCall'.id \in openIds) =>
       files' = files /\ activeFileId' = storeCall'.id
  /\ (storeCall'.op = "removeFile" /\ storeCall'.id # activeFileId) =>
       activeFileId' = activeFileId

\* C40: after any calls of addFile and removeFile (and of the calls that
\* set the stats and the progress of an open file) activeFileId is null
\* exactly when no file is open and is otherwise the id of an open file;
\* addFile of an open id makes it active and replaces neither its info nor
\* its stats nor its progress; removeFile of a file that is not active
\* leaves activeFileId unchanged
C40_ActiveFileIsOpen == [](activeIsOpen) /\ [][callsKeep]_vars

\* a file that is open with stats and progress has been added again and is
\* active, next to another open file
C40_Witness ==
  /\ storeCall.op = "addFile"
  /\ Len(files) = 2
  /\ files[1].id = storeCall.id
  /\ files[1].stats # Null
  /\ files[1].indexProgress # Null
  /\ activeFileId = storeCall.id

=============================================================================
